---------------------------- MODULE Spec2Model ----------------------------
(***************************************************************************)
(* Model of the cost module of KP_PTPN:                                    *)
(*   - ExcelReader header parsing      (src/modules/cost/excel_reader.py)  *)
(*   - ColumnDetector.detect_columns   (src/modules/cost/column_detector.py)*)
(*   - validate_upload and its helpers (src/modules/cost/validator.py)     *)
(*   - ExcelReader.get_cell_value      (src/modules/cost/excel_reader.py)  *)
(*   - DataProcessor                   (src/modules/cost/data_processor.py)*)
(*   - ConfigLoader's hot reload       (src/modules/cost/config.py)        *)
(*   - the upload flow convert()       (src/web/routes/cost.py)            *)
(*                                                                         *)
(* Cell texts are sequences of one-character strings, so that lower(),     *)
(* upper(), substring search and the year pattern are computed as the      *)
(* code computes them.  Python's None is modelled by 0 for Optional[int]   *)
(* values (columns, months and years are all >= 1) and by the sentinel     *)
(* records NoPeriod / NoColumns for Optional dictionaries.                 *)
(***************************************************************************)
EXTENDS Integers, Sequences, FiniteSets, TLC

VARIABLES
    pc,                 \* position of the run
    sheet,              \* the worksheet handed to ColumnDetector
    target,             \* target period parsed by _parse_period: [year, month]
    period_headers,     \* ColumnDetector.period_headers
    type_headers,       \* ColumnDetector.type_headers
    detected_columns,   \* ColumnDetector.detected_columns
    ret,                \* outcome of detect_columns (return value or error)
    config,             \* ConfigLoader's 'perusahaan' table, in file order
    dataframe,          \* the batch: the kode_perusahaan column of its rows
    expected_companies, \* second argument of validate_upload
    result,             \* the ValidationResult returned by validate_upload
    cell_value,         \* sheet.cell(row, col).value handed to get_cell_value
    coerced,            \* what get_cell_value returned, and whether it warned
    config_file,        \* config/cost.json on disk: its content and its mtime
    loader,             \* ConfigLoader: the loaded row_mapping and _last_modified
    workbook,           \* ExcelReader.workbook: sheet name -> worksheet
    period_args,        \* period_search and period_full of the run
    processor,          \* DataProcessor: processed_count, error_count, skipped_sheets
    batch,              \* locals of process_all_sheets: perusahaan_list, processed, all_data
    sheet_data,         \* outcome of the last process_sheet call
    db,                 \* the cost database: upload_history, cost_data, output_files
    response,           \* what convert() answered
    first_run,          \* rows and coverage result of an earlier run of the pipeline
    header_cell,        \* a merged range of the period row and the words of its text
    parsed_header       \* what parse_period_header made of that range

detectVars == <<sheet, target, period_headers, type_headers, detected_columns, ret>>
coverageVars == <<config, dataframe, expected_companies, result>>
coerceVars == <<cell_value, coerced>>
headerVars == <<header_cell, parsed_header>>
uploadVars == <<config_file, loader, workbook, period_args, processor, batch,
                sheet_data, db, response, first_run>>
vars == <<pc, sheet, target, period_headers, type_headers, detected_columns, ret,
          config, dataframe, expected_companies, result, cell_value, coerced,
          config_file, loader, workbook, period_args, processor, batch, sheet_data,
          db, response, first_run, header_cell, parsed_header>>

---------------------------------------------------------------------------
(* Bounds of the model *)

\* generic worksheets have this many columns
MaxCol == 5
\* generic worksheets carry at most this many merged ranges on the period row
MaxRanges == 2
\* generic configurations list at most this many companies
MaxCompanies == 2
\* generic batches carry at most this many rows
MaxRows == 2
\* generic text cells hold at most this many characters
MaxTextLen == 3
\* generic row mappings list at most this many entries
MaxEntries == 2
\* config/cost.json is edited at most this many times during a run
MaxEdits == 1

---------------------------------------------------------------------------
(* Python values *)

None == 0

Min(S) == CHOOSE x \in S : \A y \in S : x <= y
Max(S) == CHOOSE x \in S : \A y \in S : x >= y
Range(s) == {s[i] : i \in 1..Len(s)}

---------------------------------------------------------------------------
(* Text primitives: str.lower, str.upper, str.strip, `in`, str.find *)

UpperLetters == <<"A","B","C","D","E","F","G","H","I","J","K","L","M",
                  "N","O","P","Q","R","S","T","U","V","W","X","Y","Z">>
LowerLetters == <<"a","b","c","d","e","f","g","h","i","j","k","l","m",
                  "n","o","p","q","r","s","t","u","v","w","x","y","z">>
Digits == <<"0","1","2","3","4","5","6","7","8","9">>

LowerChar(c) ==
    IF \E i \in 1..Len(UpperLetters) : UpperLetters[i] = c
    THEN LowerLetters[CHOOSE i \in 1..Len(UpperLetters) : UpperLetters[i] = c]
    ELSE c

UpperChar(c) ==
    IF \E i \in 1..Len(LowerLetters) : LowerLetters[i] = c
    THEN UpperLetters[CHOOSE i \in 1..Len(LowerLetters) : LowerLetters[i] = c]
    ELSE c

Lower(text) == [i \in 1..Len(text) |-> LowerChar(text[i])]
Upper(text) == [i \in 1..Len(text) |-> UpperChar(text[i])]

IsDigit(c) == \E i \in 1..Len(Digits) : Digits[i] = c
DigitValue(c) == (CHOOSE i \in 1..Len(Digits) : Digits[i] = c) - 1

\* str.strip(): drop leading and trailing blanks
Strip(text) ==
    LET keep == {i \in 1..Len(text) : text[i] # " "}
    IN  IF keep = {} THEN <<>> ELSE SubSeq(text, Min(keep), Max(keep))

\* 1-based offsets at which pat occurs in text
Occurrences(text, pat) ==
    {i \in 1..(Len(text) - Len(pat) + 1) : SubSeq(text, i, i + Len(pat) - 1) = pat}

\* pat in text
Contains(text, pat) == Occurrences(text, pat) # {}

\* text.find(pat): 0-based offset of the first occurrence, -1 when absent
Find(text, pat) ==
    IF Occurrences(text, pat) = {} THEN -1 ELSE Min(Occurrences(text, pat)) - 1

---------------------------------------------------------------------------
(* Cell texts of the modelled worksheets *)

Txt_Des2024 == <<"D","e","s"," ","2","0","2","4">>
Txt_SdDes2024 == <<"s",".","d","."," ","D","e","s"," ","2","0","2","4">>
Txt_Nov2024 == <<"N","o","v"," ","2","0","2","4">>
Txt_Des2023 == <<"D","e","s"," ","2","0","2","3">>
Txt_No == <<"N","o">>
Txt_Real == <<"R","e","a","l">>
Txt_Rkap == <<"R","K","A","P">>

\* texts of the end-to-end worksheet
Txt_Desember2024 == <<"D","e","s","e","m","b","e","r"," ","2","0","2","4">>
Txt_Real2024 == <<"R","E","A","L"," ","2","0","2","4">>
Txt_Rkap2024 == <<"R","K","A","P"," ","2","0","2","4">>
Txt_Ket == <<"K","e","t">>

\* texts of the period row and of the value-type row of generic worksheets
PeriodTexts == {Txt_Des2024, Txt_SdDes2024, Txt_Nov2024, Txt_Des2023, Txt_No}
TypeTexts == {<<>>, Txt_Real, Txt_Rkap}

\* every text a modelled worksheet holds in either row
HeaderCells == PeriodTexts \cup {Txt_Desember2024}
TypeCells == TypeTexts \cup {Txt_Real2024, Txt_Rkap2024, Txt_Ket}

---------------------------------------------------------------------------
(* ExcelReader: vocabulary and header parsing *)

MONTH_MAP == <<
    [key |-> <<"j","a","n">>,     num |-> 1],
    [key |-> <<"f","e","b">>,     num |-> 2],
    [key |-> <<"m","a","r">>,     num |-> 3],
    [key |-> <<"a","p","r">>,     num |-> 4],
    [key |-> <<"m","e","i">>,     num |-> 5],
    [key |-> <<"j","u","n","i">>, num |-> 6],
    [key |-> <<"j","u","l","i">>, num |-> 7],
    [key |-> <<"a","g","s","t">>, num |-> 8],
    [key |-> <<"s","e","p","t">>, num |-> 9],
    [key |-> <<"o","k","t">>,     num |-> 10],
    [key |-> <<"n","o","v">>,     num |-> 11],
    [key |-> <<"d","e","s">>,     num |-> 12] >>

\* variant of ExtractMonth that takes the first vocabulary key found, in the
\* order of the table
ExtractMonth_TableOrder(text) ==
    LET t     == Lower(text)
        found == {i \in 1..Len(MONTH_MAP) : Contains(t, MONTH_MAP[i].key)}
    IN  IF found = {} THEN None ELSE MONTH_MAP[Min(found)].num

\* _extract_month: every vocabulary key found in the lowered text, with the
\* offset of its first occurrence; stable sort by offset; first entry wins
ExtractMonth(text) ==
    LET t     == Lower(text)
        found == {i \in 1..Len(MONTH_MAP) : Contains(t, MONTH_MAP[i].key)}
        pos(i) == Find(t, MONTH_MAP[i].key)
    IN  IF found = {} THEN None
        ELSE MONTH_MAP[CHOOSE i \in found :
                          \A j \in found : pos(i) < pos(j) \/ (pos(i) = pos(j) /\ i <= j)].num

\* _extract_year: first match of the pattern 20\d{2}
ExtractYear(text) ==
    LET hits == {i \in 1..(Len(text) - 3) :
                    /\ text[i] = "2" /\ text[i + 1] = "0"
                    /\ IsDigit(text[i + 2]) /\ IsDigit(text[i + 3])}
    IN  IF hits = {} THEN None
        ELSE LET i == Min(hits)
             IN  2000 + 10 * DigitValue(text[i + 2]) + DigitValue(text[i + 3])

sd_patterns == <<
    <<"s",".","d",".">>, <<"s",".","d"," ">>, <<"s","/","d">>, <<"s","d",".">>,
    <<"s","a","m","p","a","i"," ","d","e","n","g","a","n">>,
    <<"s","a","m","p","a","i">> >>

\* _is_sd_header
IsSdHeader(text) ==
    \E k \in 1..Len(sd_patterns) : Contains(Lower(text), sd_patterns[k])

NoPeriod ==
    [type |-> "None", text |-> <<>>, start_col |-> None, end_col |-> None,
     month |-> None, year |-> None, is_sd |-> FALSE]

\* what parse_period_header derives from the text of one header cell
HeaderOf(cell) ==
    LET header_text == Strip(cell)
    IN  [text  |-> header_text,
         month |-> ExtractMonth(header_text),
         year  |-> ExtractYear(header_text),
         is_sd |-> IsSdHeader(header_text)]

\* the header cells of the modelled worksheets, parsed once
HeaderTable == [cell \in HeaderCells |-> HeaderOf(cell)]

\* the descriptor parse_period_header appends for one merged range
PeriodOf(mr) ==
    LET h == HeaderTable[mr.text]
    IN  [type      |-> IF h.is_sd THEN "s.d." ELSE "bulan",
         text      |-> h.text,
         start_col |-> mr.min_col,
         end_col   |-> mr.max_col,
         month     |-> h.month,
         year      |-> h.year,
         is_sd     |-> h.is_sd]

\* variant of KeptRanges that keeps every range with a non-empty text
KeptRanges_AnyText(sh) ==
    {mr \in sh.merged : HeaderTable[mr.text].text # <<>>}

\* the merged ranges parse_period_header keeps: non-empty text with both a
\* month and a year
KeptRanges(sh) ==
    {mr \in sh.merged :
        /\ HeaderTable[mr.text].text # <<>>
        /\ HeaderTable[mr.text].month # None
        /\ HeaderTable[mr.text].year # None}

\* list.sort(key=start_col) over the kept descriptors
RECURSIVE SortByStartCol(_)
SortByStartCol(S) ==
    IF S = {} THEN <<>>
    ELSE LET first == CHOOSE p \in S : \A q \in S : p.start_col <= q.start_col
         IN  <<first>> \o SortByStartCol(S \ {first})

\* parse_period_header: the sorted descriptor list; <<>> stands for the
\* ValueError "No period headers found"
ParsePeriodHeader(sh) == SortByStartCol({PeriodOf(mr) : mr \in KeptRanges(sh)})

\* the text of a header cell, written as words around a month and a year
CellText(cell) ==
    cell.before \o cell.month_word \o <<" ">> \o cell.year_digits \o cell.after

NoHeaderCell ==
    [before |-> <<>>, month_word |-> <<>>, year_digits |-> <<>>, after |-> <<>>,
     min_col |-> None, max_col |-> None]

NotParsed == [month |-> None, year |-> None, descriptor |-> NoPeriod]

\* the body of the loop of parse_period_header for one merged range of the
\* period row: what _extract_month and _extract_year return, and the
\* descriptor appended (NoPeriod when the range is skipped)
ParseMergedRange(cell) ==
    LET h == HeaderOf(CellText(cell))
    IN  [month |-> h.month,
         year  |-> h.year,
         descriptor |->
             IF h.text = <<>> \/ h.month = None \/ h.year = None THEN NoPeriod
             ELSE [type      |-> IF h.is_sd THEN "s.d." ELSE "bulan",
                   text      |-> h.text,
                   start_col |-> cell.min_col,
                   end_col   |-> cell.max_col,
                   month     |-> h.month,
                   year      |-> h.year,
                   is_sd     |-> h.is_sd]]

\* parse_period_header on a period row with that one merged range
ParseHeader ==
    /\ pc = "header"
    /\ parsed_header' = ParseMergedRange(header_cell)
    /\ pc' = "parsed"
    /\ UNCHANGED <<detectVars, coverageVars, coerceVars, uploadVars, header_cell>>

\* classification of one cell of the value-type row
TypeOfCell(cell) ==
    LET header_text == Upper(Strip(cell))
    IN  IF header_text = <<>> THEN "None"
        ELSE IF Contains(header_text, <<"R","E","A","L">>) THEN "REAL"
        ELSE IF Contains(header_text, <<"R","K","A","P">>) THEN "RKAP"
        ELSE "None"

\* the value-type cells of the modelled worksheets, classified once
TypeTable == [cell \in TypeCells |-> TypeOfCell(cell)]

\* parse_type_header: column -> "REAL" | "RKAP"; the empty function stands
\* for the ValueError "No REAL/RKAP headers found"
ParseTypeHeader(sh) ==
    [col \in {c \in 1..sh.max_column : TypeTable[sh.typeRow[c]] # "None"}
        |-> TypeTable[sh.typeRow[col]]]

\* dict.get(col) on the type mapping
TypeAt(th, col) == IF col \in DOMAIN th THEN th[col] ELSE "None"


---------------------------------------------------------------------------
(* ColumnDetector *)

NoColumns ==
    [REAL_BULAN_INI |-> None, RKAP_BULAN_INI |-> None, REAL_SD |-> None, RKAP_SD |-> None]

required_columns == <<"REAL_BULAN_INI", "RKAP_BULAN_INI", "REAL_SD", "RKAP_SD">>

NoHeaders == [bulan |-> NoPeriod, sd |-> NoPeriod]

\* variant of MatchPeriods that lets a later matching descriptor replace an
\* earlier one
RECURSIVE MatchPeriods_LastWins(_, _, _, _)
MatchPeriods_LastWins(all_periods, i, tgt, acc) ==
    IF i > Len(all_periods) THEN acc
    ELSE LET period   == all_periods[i]
             is_match == period.year = tgt.year /\ period.month = tgt.month
             next ==
                 IF ~is_match THEN acc
                 ELSE IF period.type = "bulan" THEN [acc EXCEPT !.bulan = period]
                 ELSE IF period.type = "s.d." THEN [acc EXCEPT !.sd = period]
                 ELSE acc
         IN  MatchPeriods_LastWins(all_periods, i + 1, tgt, next)

\* step 3 of detect_columns: the loop that keeps the first matching
\* 'bulan' descriptor and the first matching 's.d.' descriptor
RECURSIVE MatchPeriods(_, _, _, _)
MatchPeriods(all_periods, i, tgt, acc) ==
    IF i > Len(all_periods) THEN acc
    ELSE LET period   == all_periods[i]
             is_match == period.year = tgt.year /\ period.month = tgt.month
             next ==
                 IF ~is_match THEN acc
                 ELSE IF period.type = "bulan" /\ acc.bulan = NoPeriod
                      THEN [acc EXCEPT !.bulan = period]
                 ELSE IF period.type = "s.d." /\ acc.sd = NoPeriod
                      THEN [acc EXCEPT !.sd = period]
                 ELSE acc
         IN  MatchPeriods(all_periods, i + 1, tgt, next)

\* variant of Available that lists the descriptors of every kind
RECURSIVE Available_AllKinds(_, _)
Available_AllKinds(all_periods, i) ==
    IF i > Len(all_periods) THEN <<>>
    ELSE << <<all_periods[i].year, all_periods[i].month>> >>
            \o Available_AllKinds(all_periods, i + 1)

\* step 4: the (year, month) of every 'bulan' descriptor, in list order
RECURSIVE Available(_, _)
Available(all_periods, i) ==
    IF i > Len(all_periods) THEN <<>>
    ELSE (IF all_periods[i].type = "bulan"
          THEN << <<all_periods[i].year, all_periods[i].month>> >>
          ELSE <<>>) \o Available(all_periods, i + 1)

\* variant of GetColumnsInRange that also visits the column after end_col
RECURSIVE GetColumnsInRange_PastEnd(_, _, _, _)
GetColumnsInRange_PastEnd(th, col, end_col, cols) ==
    IF col > end_col + 1 THEN cols
    ELSE LET type_name == TypeAt(th, col)
         IN  GetColumnsInRange_PastEnd(th, col + 1, end_col,
                 IF type_name # "None" THEN [cols EXCEPT ![type_name] = col] ELSE cols)

\* _get_columns_in_range: the loop over range(start_col, end_col + 1);
\* a later column of the same type overwrites an earlier one
RECURSIVE GetColumnsInRange(_, _, _, _)
GetColumnsInRange(th, col, end_col, cols) ==
    IF col > end_col THEN cols
    ELSE LET type_name == TypeAt(th, col)
         IN  GetColumnsInRange(th, col + 1, end_col,
                 IF type_name # "None" THEN [cols EXCEPT ![type_name] = col] ELSE cols)

\* variant of FallbackScan that gives up at the first unclassified column
RECURSIVE FallbackScan_StopAtGap(_, _, _, _, _)
FallbackScan_StopAtGap(th, col, stop, next_real, next_rkap) ==
    IF col >= stop \/ TypeAt(th, col) = "None"
    THEN [REAL |-> next_real, RKAP |-> next_rkap]
    ELSE LET type_name == TypeAt(th, col)
             nr == IF type_name = "REAL" /\ next_real = None THEN col ELSE next_real
             nk == IF ~(type_name = "REAL" /\ next_real = None)
                      /\ type_name = "RKAP" /\ next_rkap = None
                   THEN col ELSE next_rkap
         IN  IF nr # None /\ nk # None
             THEN [REAL |-> nr, RKAP |-> nk]
             ELSE FallbackScan_StopAtGap(th, col + 1, stop, nr, nk)

\* the fallback loop of _map_columns over range(col, stop), with its break
RECURSIVE FallbackScan(_, _, _, _, _)
FallbackScan(th, col, stop, next_real, next_rkap) ==
    IF col >= stop THEN [REAL |-> next_real, RKAP |-> next_rkap]
    ELSE LET type_name == TypeAt(th, col)
             nr == IF type_name = "REAL" /\ next_real = None THEN col ELSE next_real
             nk == IF ~(type_name = "REAL" /\ next_real = None)
                      /\ type_name = "RKAP" /\ next_rkap = None
                   THEN col ELSE next_rkap
         IN  IF nr # None /\ nk # None
             THEN [REAL |-> nr, RKAP |-> nk]
             ELSE FallbackScan(th, col + 1, stop, nr, nk)

\* variant of MapColumns whose fallback scan starts at the month range's
\* end column instead of the column after it
MapColumns_ScanFromEnd(ph, th) ==
    LET bulan_cols == GetColumnsInRange(th, ph.bulan.start_col, ph.bulan.end_col,
                                        [REAL |-> None, RKAP |-> None])
        sd_cols ==
            IF ph.sd # NoPeriod
            THEN GetColumnsInRange(th, ph.sd.start_col, ph.sd.end_col,
                                   [REAL |-> None, RKAP |-> None])
            ELSE FallbackScan(th, ph.bulan.end_col, Max(DOMAIN th) + 1, None, None)
    IN  [REAL_BULAN_INI |-> bulan_cols.REAL,
         RKAP_BULAN_INI |-> bulan_cols.RKAP,
         REAL_SD        |-> sd_cols.REAL,
         RKAP_SD        |-> sd_cols.RKAP]

\* _map_columns
MapColumns(ph, th) ==
    LET bulan_cols == GetColumnsInRange(th, ph.bulan.start_col, ph.bulan.end_col,
                                        [REAL |-> None, RKAP |-> None])
        sd_cols ==
            IF ph.sd # NoPeriod
            THEN GetColumnsInRange(th, ph.sd.start_col, ph.sd.end_col,
                                   [REAL |-> None, RKAP |-> None])
            ELSE FallbackScan(th, ph.bulan.end_col + 1, Max(DOMAIN th) + 1, None, None)
    IN  [REAL_BULAN_INI |-> bulan_cols.REAL,
         RKAP_BULAN_INI |-> bulan_cols.RKAP,
         REAL_SD        |-> sd_cols.REAL,
         RKAP_SD        |-> sd_cols.RKAP]

\* variant of ValidateColumns that checks the two monthly columns only
ValidateColumns_MonthOnly(columns) ==
    SelectSeq(<<"REAL_BULAN_INI", "RKAP_BULAN_INI">>, LAMBDA k : columns[k] = None)

\* _validate_columns: the names of the required columns that are None, in
\* the order of required_columns; <<>> when validation passes
ValidateColumns(columns) ==
    SelectSeq(required_columns, LAMBDA k : columns[k] = None)

Ok(columns) ==
    [kind |-> "ok", columns |-> columns, missing |-> <<>>, available |-> <<>>]
HeaderError ==
    [kind |-> "header", columns |-> NoColumns, missing |-> <<>>, available |-> <<>>]
PeriodError(available) ==
    [kind |-> "period", columns |-> NoColumns, missing |-> <<>>, available |-> available]
ColumnError(missing) ==
    [kind |-> "columns", columns |-> NoColumns, missing |-> missing, available |-> <<>>]
NoResult ==
    [kind |-> "none", columns |-> NoColumns, missing |-> <<>>, available |-> <<>>]

\* detect_columns: the outcome and the detector's fields after the call
DetectOutcome(sh, tgt) ==
    LET all_periods == ParsePeriodHeader(sh)
        th          == ParseTypeHeader(sh)
        matched     == MatchPeriods(all_periods, 1, tgt, NoHeaders)
        columns     == MapColumns(matched, th)
        missing     == ValidateColumns(columns)
        unset       == [ret |-> NoResult, period_headers |-> NoHeaders,
                        type_headers |-> <<>>, detected_columns |-> NoColumns]
    IN  IF all_periods = <<>> \/ DOMAIN th = {}
        THEN [unset EXCEPT !.ret = HeaderError]
        ELSE IF matched.bulan = NoPeriod
        THEN [unset EXCEPT !.ret = PeriodError(Available(all_periods, 1)),
                           !.type_headers = th]
        ELSE IF missing # <<>>
        THEN [unset EXCEPT !.ret = ColumnError(missing),
                           !.type_headers = th, !.period_headers = matched]
        ELSE [ret |-> Ok(columns), period_headers |-> matched,
              type_headers |-> th, detected_columns |-> columns]

DetectColumns ==
    /\ pc = "ready"
    /\ LET out == DetectOutcome(sheet, target)
       IN  /\ ret' = out.ret
           /\ period_headers' = out.period_headers
           /\ type_headers' = out.type_headers
           /\ detected_columns' = out.detected_columns
    /\ pc' = "done"
    /\ UNCHANGED <<sheet, target, config, dataframe, expected_companies, result>>
    /\ UNCHANGED <<coerceVars, headerVars, uploadVars>>

---------------------------------------------------------------------------
(* ExcelReader.get_cell_value *)

\* a float: a finite decimal mant / 10^exp (exp as small as possible), or one
\* of the special values float() produces
Finite(m, e) == [kind |-> "finite", mant |-> m, exp |-> e]
NaN == [kind |-> "nan", mant |-> 0, exp |-> 0]
Infinity(negative) == [kind |-> IF negative THEN "-inf" ELSE "inf", mant |-> 0, exp |-> 0]
Zero == Finite(0, 0)

\* cell contents: the tagged union {Empty, Number, Text}
EmptyCell == [kind |-> "empty", num |-> Zero, text |-> <<>>]
NumberCell(n) == [kind |-> "number", num |-> n, text |-> <<>>]
TextCell(t) == [kind |-> "text", num |-> Zero, text |-> t]

\* str.replace(c, ''): every occurrence of the character is dropped
Remove(text, c) == SelectSeq(text, LAMBDA x : x # c)

\* the value of a run of decimal digits
RECURSIVE DigitsValue(_)
DigitsValue(ds) ==
    IF ds = <<>> THEN 0
    ELSE 10 * DigitsValue(SubSeq(ds, 1, Len(ds) - 1)) + DigitValue(ds[Len(ds)])

\* the float with the value m / 10^e
RECURSIVE Normalize(_, _)
Normalize(m, e) ==
    IF m = 0 THEN Zero
    ELSE IF e > 0 /\ m % 10 = 0 THEN Normalize(m \div 10, e - 1)
    ELSE Finite(m, e)

Negate(x) == IF x.kind = "finite" THEN Finite(0 - x.mant, x.exp) ELSE x

\* float(str) on a text without blanks: optional sign, then "nan", "inf",
\* "infinity" (any case) or digits with at most one point and at least one
\* digit; ok = FALSE stands for the ValueError.  Texts of the model hold no
\* exponent and no underscore.
ParseFloat(text) ==
    LET signed == text # <<>> /\ text[1] \in {"+", "-"}
        neg    == signed /\ text[1] = "-"
        body   == IF signed THEN Tail(text) ELSE text
        low    == Lower(body)
        dots   == {i \in 1..Len(body) : body[i] = "."}
        digs   == Remove(body, ".")
        isDec  == /\ Cardinality(dots) <= 1
                  /\ digs # <<>>
                  /\ \A i \in 1..Len(digs) : IsDigit(digs[i])
        scale  == IF dots = {} THEN 0 ELSE Len(body) - Min(dots)
        mag    == Normalize(DigitsValue(digs), scale)
    IN  IF low = <<"n","a","n">> THEN [ok |-> TRUE, value |-> NaN]
        ELSE IF low \in {<<"i","n","f">>, <<"i","n","f","i","n","i","t","y">>}
        THEN [ok |-> TRUE, value |-> Infinity(neg)]
        ELSE IF isDec THEN [ok |-> TRUE, value |-> IF neg THEN Negate(mag) ELSE mag]
        ELSE [ok |-> FALSE, value |-> Zero]

\* get_cell_value: the float returned and whether the warning was logged
GetCellValue(cell) ==
    IF cell.kind = "empty" THEN [value |-> Zero, warned |-> FALSE]
    ELSE IF cell.kind = "number" THEN [value |-> cell.num, warned |-> FALSE]
    ELSE LET value == Strip(Remove(Remove(cell.text, ","), " "))
         IN  IF value = <<>> \/ value = <<"-">>
             THEN [value |-> Zero, warned |-> FALSE]
             ELSE IF ParseFloat(value).ok
             THEN [value |-> ParseFloat(value).value, warned |-> FALSE]
             ELSE [value |-> Zero, warned |-> TRUE]

NotCoerced == [value |-> Zero, warned |-> FALSE]

\* one call of get_cell_value
CoerceCell ==
    /\ pc = "cell"
    /\ coerced' = GetCellValue(cell_value)
    /\ pc' = "coerced"
    /\ UNCHANGED <<detectVars, coverageVars, cell_value, uploadVars, headerVars>>

---------------------------------------------------------------------------
(* ConfigLoader *)

\* int(row_num) accepts a text of decimal digits
IsIntText(text) == text # <<>> /\ \A i \in 1..Len(text) : IsDigit(text[i])

\* _validate_config_structure passes: every row key is numeric and every
\* payment_type is CASH or NON CASH (the modelled companies carry all their
\* fields)
ValidStructure(row_mapping) ==
    \A i \in 1..Len(row_mapping) :
        /\ IsIntText(row_mapping[i].row_num_str)
        /\ row_mapping[i].payment_type \in {"CASH", "NON CASH"}

\* _load_and_validate(force=True): json.load raises on a malformed file
\* before anything is assigned; otherwise _config_data and _last_modified
\* are replaced first and the structure is validated afterwards
LoadAndValidate(file, perusahaan, ldr) ==
    IF file.json = "malformed"
    THEN [config |-> perusahaan, loader |-> ldr, raised |-> TRUE]
    ELSE [config |-> file.perusahaan,
          loader |-> [row_mapping |-> file.row_mapping, last_modified |-> file.mtime],
          raised |-> ~ValidStructure(file.row_mapping)]

\* auto_reload_if_changed: when the file's mtime differs from _last_modified
\* the file is loaded again; an exception of the load is logged and dropped
AutoReloadIfChanged(file, perusahaan, ldr) ==
    IF file.mtime # ldr.last_modified
    THEN LoadAndValidate(file, perusahaan, ldr)
    ELSE [config |-> perusahaan, loader |-> ldr, raised |-> FALSE]

\* the file a loader holding this configuration has read
FileOf(perusahaan, row_mapping) ==
    [perusahaan |-> perusahaan, row_mapping |-> row_mapping, mtime |-> 1, json |-> "ok"]

\* the mtime of a file written now: later than every mtime seen so far
NewMtime(file, ldr) == Max({file.mtime, ldr.last_modified}) + 1

\* the loader is idle, or has just served one of its tables
LoaderPositions == {"config", "perusahaan", "row_mapping"}

\* ConfigLoader.reload
Reload ==
    /\ pc \in LoaderPositions
    /\ \E loaded \in {LoadAndValidate(config_file, config, loader)} :
          /\ config' = loaded.config
          /\ loader' = loaded.loader
    /\ pc' = "config"
    /\ UNCHANGED <<detectVars, dataframe, expected_companies, result, coerceVars,
                   headerVars, config_file, workbook, period_args, processor, batch,
                   sheet_data, db, response, first_run>>

\* ConfigLoader.get_perusahaan: auto reload, then the company table is served
GetPerusahaan ==
    /\ pc \in LoaderPositions
    /\ \E reloaded \in {AutoReloadIfChanged(config_file, config, loader)} :
          /\ config' = reloaded.config
          /\ loader' = reloaded.loader
    /\ pc' = "perusahaan"
    /\ UNCHANGED <<detectVars, dataframe, expected_companies, result, coerceVars,
                   headerVars, config_file, workbook, period_args, processor, batch,
                   sheet_data, db, response, first_run>>

\* ConfigLoader.get_row_mapping: auto reload, then the row mapping is served
GetRowMapping ==
    /\ pc \in LoaderPositions
    /\ \E reloaded \in {AutoReloadIfChanged(config_file, config, loader)} :
          /\ config' = reloaded.config
          /\ loader' = reloaded.loader
    /\ pc' = "row_mapping"
    /\ UNCHANGED <<detectVars, dataframe, expected_companies, result, coerceVars,
                   headerVars, config_file, workbook, period_args, processor, batch,
                   sheet_data, db, response, first_run>>

\* save_config(config_data): the file is backed up and rewritten, then
\* loaded; when the load raises the backup is copied back with its mtime
SaveConfigOutcome(file, perusahaan, ldr, config_data) ==
    LET written == [perusahaan |-> config_data.perusahaan,
                    row_mapping |-> config_data.row_mapping,
                    mtime |-> NewMtime(file, ldr), json |-> "ok"]
        loaded  == LoadAndValidate(written, perusahaan, ldr)
    IN  [file   |-> IF loaded.raised THEN file ELSE written,
         config |-> loaded.config,
         loader |-> loaded.loader]

\* the loader right after it read that file
LoaderOf(row_mapping) == [row_mapping |-> row_mapping, last_modified |-> 1]

---------------------------------------------------------------------------
(* Coverage validator *)

\* validate_company_coverage, first loop: kode_perusahaan -> config key;
\* an empty kode is not mapped, a later company overwrites an earlier one
RECURSIVE DataCodeToConfigKey(_, _, _)
DataCodeToConfigKey(cfg, i, acc) ==
    IF i > Len(cfg) THEN acc
    ELSE DataCodeToConfigKey(cfg, i + 1,
             IF cfg[i].kode # "" THEN (cfg[i].kode :> cfg[i].key) @@ acc ELSE acc)

\* set(dataframe['kode_perusahaan'].unique()), empty for an empty frame
ProcessedDataCodes(df) == IF df = <<>> THEN {} ELSE Range(df)

\* second loop: the config keys the data codes of the batch map to
ProcessedConfigKeys(df, cfg) ==
    LET data_code_to_config_key == DataCodeToConfigKey(cfg, 1, <<>>)
    IN  {data_code_to_config_key[c] :
            c \in ProcessedDataCodes(df) \cap DOMAIN data_code_to_config_key}

\* position of a one-letter key in the order sorted() uses
Rank(k) == CHOOSE i \in 1..Len(UpperLetters) : UpperLetters[i] = k

\* sorted(list(S))
RECURSIVE Sorted(_)
Sorted(S) ==
    IF S = {} THEN <<>>
    ELSE LET first == CHOOSE k \in S : \A j \in S : Rank(k) <= Rank(j)
         IN  <<first>> \o Sorted(S \ {first})

\* variant of ValidateCompanyCoverage that leaves the missing keys in the
\* order of the expected list
ValidateCompanyCoverage_Unsorted(df, expected, cfg) ==
    LET processed_config_keys == ProcessedConfigKeys(df, cfg)
    IN  [processed_count     |-> Cardinality(processed_config_keys),
         missing_config_keys |->
             SelectSeq(expected, LAMBDA k : k \notin processed_config_keys)]

\* validate_company_coverage: (processed_count, missing_config_keys)
ValidateCompanyCoverage(df, expected, cfg) ==
    LET processed_config_keys == ProcessedConfigKeys(df, cfg)
        expected_set          == Range(expected)
    IN  [processed_count     |-> Cardinality(processed_config_keys),
         missing_config_keys |-> Sorted(expected_set \ processed_config_keys)]

\* a percentage is kept as the exact fraction num / den
Percent(n) == [num |-> n, den |-> 1]
Less(p, q) == p.num * q.den < q.num * p.den
Same(p, q) == p.num * q.den = q.num * p.den

\* variant of DetermineStatus that rejects a coverage of exactly 90
DetermineStatus_Inclusive(coverage_percent) ==
    IF ~Less(Percent(90), coverage_percent) THEN "failed"
    ELSE IF Less(coverage_percent, Percent(100)) THEN "warning"
    ELSE "success"

\* determine_status
DetermineStatus(coverage_percent) ==
    IF Less(coverage_percent, Percent(90)) THEN "failed"
    ELSE IF Less(coverage_percent, Percent(100)) THEN "warning"
    ELSE "success"

\* variant of CoveragePercent that reports full coverage when nothing is
\* expected
CoveragePercent_FullWhenEmpty(processed_count, total_companies) ==
    IF total_companies > 0
    THEN [num |-> processed_count * 100, den |-> total_companies]
    ELSE Percent(100)

\* company_coverage_percent: 0.0 from ValidationResult.__init__ unless
\* total_companies > 0
CoveragePercent(processed_count, total_companies) ==
    IF total_companies > 0
    THEN [num |-> processed_count * 100, den |-> total_companies]
    ELSE Percent(0)

NoValidation ==
    [total_companies |-> 0, processed_companies |-> 0, missing_companies |-> <<>>,
     company_coverage_percent |-> Percent(0), status |-> "none"]

\* validate_upload
ValidateUploadResult(df, expected, cfg) ==
    LET cov == ValidateCompanyCoverage(df, expected, cfg)
        pct == CoveragePercent(cov.processed_count, Len(expected))
    IN  [total_companies          |-> Len(expected),
         processed_companies      |-> cov.processed_count,
         missing_companies        |-> cov.missing_config_keys,
         company_coverage_percent |-> pct,
         status                   |-> DetermineStatus(pct)]

\* validate_upload, with the reload its get_perusahaan() call may trigger
ValidateUpload ==
    /\ pc = "ready"
    /\ \E reloaded \in {AutoReloadIfChanged(config_file, config, loader)} :
          /\ config' = reloaded.config
          /\ loader' = reloaded.loader
          /\ result' = ValidateUploadResult(dataframe, expected_companies, reloaded.config)
    /\ pc' = "validated"
    /\ UNCHANGED <<detectVars, dataframe, expected_companies, coerceVars, headerVars, config_file,
                   workbook, period_args, processor, batch, sheet_data, db, response,
                   first_run>>

---------------------------------------------------------------------------
(* DataProcessor and the upload flow *)

NoPeriodArgs == [period_search |-> <<>>, period_full |-> <<>>]

\* DataProcessor.__init__
NewDataProcessor == [processed_count |-> 0, error_count |-> 0, skipped_sheets |-> <<>>]

NoBatch == [perusahaan_list |-> <<>>, processed |-> 0, all_data |-> <<>>]
NoSheetData == [kind |-> "none", reason |-> "", rows |-> <<>>]
EmptyDb == [upload_history |-> <<>>, cost_data |-> <<>>, output_files |-> <<>>]
NoResponse == [kind |-> "none"]
NoRun == [rows |-> <<>>, result |-> NoValidation]

\* "if period_full is None: period_full = period_search"
PeriodFull(args) ==
    IF args.period_full = <<"None">> THEN args.period_search ELSE args.period_full

\* _parse_period: datetime.strptime(period, '%Y-%m'), i.e. four digits, a
\* hyphen and a month written 1..9, 01..09 or 10..12; ok = FALSE stands for
\* the ValueError
ParsePeriod(text) ==
    LET yearOk  == /\ Len(text) >= 6
                   /\ \A i \in 1..4 : IsDigit(text[i])
                   /\ text[5] = "-"
                   /\ DigitsValue(SubSeq(text, 1, 4)) >= 1
        m       == SubSeq(text, 6, Len(text))
        monthOk == /\ Len(m) \in {1, 2}
                   /\ \A i \in 1..Len(m) : IsDigit(m[i])
                   /\ DigitsValue(m) \in 1..12
    IN  IF yearOk /\ monthOk
        THEN [ok |-> TRUE, year |-> DigitsValue(SubSeq(text, 1, 4)), month |-> DigitsValue(m)]
        ELSE [ok |-> FALSE, year |-> None, month |-> None]

\* sheet.cell(row, col).value: a cell the grid does not hold is empty
CellAt(sh, row, col) ==
    IF <<row, col>> \in DOMAIN sh.cells THEN sh.cells[<<row, col>>] ELSE EmptyCell

\* int(row_num_str) on a key of row_mapping
RowNumber(row_num_str) == DigitsValue(row_num_str)

\* variant of ExtractRow that reads the cumulative amounts from the monthly
\* columns
ExtractRow_MonthlyTwice(sh, perusahaan_data, period_full, entry, columns) ==
    LET row_num == RowNumber(entry.row_num_str)
    IN  [holding          |-> perusahaan_data.holding,
         kode_perusahaan  |-> perusahaan_data.kode,
         periode          |-> period_full,
         payment_type     |-> entry.payment_type,
         cost_description |-> entry.cost_description,
         REAL    |-> GetCellValue(CellAt(sh, row_num, columns.REAL_BULAN_INI)).value,
         RKAP    |-> GetCellValue(CellAt(sh, row_num, columns.RKAP_BULAN_INI)).value,
         REAL_SD |-> GetCellValue(CellAt(sh, row_num, columns.REAL_BULAN_INI)).value,
         RKAP_SD |-> GetCellValue(CellAt(sh, row_num, columns.RKAP_BULAN_INI)).value]

\* the body of the loop of process_sheet: the output row of one entry of
\* row_mapping
ExtractRow(sh, perusahaan_data, period_full, entry, columns) ==
    LET row_num == RowNumber(entry.row_num_str)
    IN  [holding          |-> perusahaan_data.holding,
         kode_perusahaan  |-> perusahaan_data.kode,
         periode          |-> period_full,
         payment_type     |-> entry.payment_type,
         cost_description |-> entry.cost_description,
         REAL    |-> GetCellValue(CellAt(sh, row_num, columns.REAL_BULAN_INI)).value,
         RKAP    |-> GetCellValue(CellAt(sh, row_num, columns.RKAP_BULAN_INI)).value,
         REAL_SD |-> GetCellValue(CellAt(sh, row_num, columns.REAL_SD)).value,
         RKAP_SD |-> GetCellValue(CellAt(sh, row_num, columns.RKAP_SD)).value]

\* the loop of process_sheet over row_mapping.items(), in file order
RECURSIVE ExtractRows(_, _, _, _, _, _)
ExtractRows(sh, perusahaan_data, period_full, row_mapping, columns, i) ==
    IF i > Len(row_mapping) THEN <<>>
    ELSE <<ExtractRow(sh, perusahaan_data, period_full, row_mapping[i], columns)>>
            \o ExtractRows(sh, perusahaan_data, period_full, row_mapping, columns, i + 1)

\* the entries the loop of process_sheet gets through before int(row_num_str)
\* raises ValueError on a key that is not numeric
BeforeBadKey(row_mapping) ==
    SubSeq(row_mapping, 1,
           Min({i \in 1..Len(row_mapping) : ~IsIntText(row_mapping[i].row_num_str)}
                   \cup {Len(row_mapping) + 1}) - 1)

\* process_sheet once the period is parsed and the columns are detected:
\* the error either of them raised, or the rows read with the row mapping
\* that get_row_mapping() serves; when a row key is not numeric the rows
\* built so far (the local data_rows) are lost with the ValueError
SheetOutcome(tgt, det, sh, perusahaan_data, period_full, row_mapping) ==
    IF ~tgt.ok THEN [kind |-> "raised", reason |-> "format", rows |-> <<>>]
    ELSE IF det.kind # "ok" THEN [kind |-> "raised", reason |-> det.kind, rows |-> <<>>]
    ELSE IF Len(BeforeBadKey(row_mapping)) < Len(row_mapping)
    THEN [kind |-> "raised", reason |-> "row",
          rows |-> ExtractRows(sh, perusahaan_data, period_full,
                               BeforeBadKey(row_mapping), det.columns, 1)]
    ELSE [kind |-> "rows", reason |-> "",
          rows |-> ExtractRows(sh, perusahaan_data, period_full, row_mapping,
                               det.columns, 1)]

TargetOf(tgt) == [year |-> tgt.year, month |-> tgt.month]

\* process_sheet: the rows it returns, or the error it raises; row_mapping
\* is what get_row_mapping() serves, which is asked for only once the
\* columns are detected
ProcessSheetOutcome(sh, perusahaan_data, period_search, period_full, row_mapping) ==
    SheetOutcome(ParsePeriod(period_search),
                 DetectOutcome(sh, TargetOf(ParsePeriod(period_search))).ret,
                 sh, perusahaan_data, period_full, row_mapping)

\* the configuration in memory after process_sheet: reloaded when the call
\* got as far as get_row_mapping()
AfterRowMapping(out, reloaded, perusahaan, ldr) ==
    IF out.kind = "rows" \/ out.reason = "row"
    THEN reloaded ELSE [config |-> perusahaan, loader |-> ldr]

\* one call of process_sheet for the first company of the configuration
ProcessSheet ==
    /\ pc = "sheet"
    /\ \E reloaded \in {AutoReloadIfChanged(config_file, config, loader)} :
       \E out \in {ProcessSheetOutcome(workbook[config[1].sheet_name], config[1],
                        period_args.period_search, PeriodFull(period_args),
                        reloaded.loader.row_mapping)} :
          /\ config' = AfterRowMapping(out, reloaded, config, loader).config
          /\ loader' = AfterRowMapping(out, reloaded, config, loader).loader
          /\ sheet_data' = out
    /\ pc' = "extracted"
    /\ UNCHANGED <<detectVars, dataframe, expected_companies, result, coerceVars, headerVars,
                   config_file, workbook, period_args, processor, batch, db, response,
                   first_run>>

\* a holding that is JSON null in the configuration file
NoneHolding == "<None>"

\* variant of StartBatch that keeps the rows of an earlier call in all_data
StartBatch_KeepsRows ==
    /\ pc = "convert"
    /\ \E reloaded \in {AutoReloadIfChanged(config_file, config, loader)} :
          /\ config' = reloaded.config
          /\ loader' = reloaded.loader
          /\ batch' = [perusahaan_list |-> reloaded.config, processed |-> 0,
                       all_data |-> batch.all_data]
    /\ pc' = "loop"
    /\ UNCHANGED <<detectVars, dataframe, expected_companies, result, coerceVars, headerVars,
                   config_file, workbook, period_args, processor, sheet_data, db,
                   response, first_run>>

\* process_all_sheets up to the loop: all_data = [], the company table is
\* read once through get_perusahaan(), processed = 0
StartBatch ==
    /\ pc = "convert"
    /\ \E reloaded \in {AutoReloadIfChanged(config_file, config, loader)} :
          /\ config' = reloaded.config
          /\ loader' = reloaded.loader
          /\ batch' = [perusahaan_list |-> reloaded.config, processed |-> 0,
                       all_data |-> <<>>]
    /\ pc' = "loop"
    /\ UNCHANGED <<detectVars, dataframe, expected_companies, result, coerceVars, headerVars,
                   config_file, workbook, period_args, processor, sheet_data, db,
                   response, first_run>>

\* variant of AfterSheet that books a missing worksheet as an error
AfterSheet_MissingIsError(proc, sheet_name, exists, out) ==
    IF exists /\ out.kind = "rows"
    THEN [proc EXCEPT !.processed_count = @ + 1]
    ELSE [proc EXCEPT !.error_count = @ + 1]

\* variant of AfterSheet that also lists a failed worksheet as skipped
AfterSheet_FailedAlsoSkipped(proc, sheet_name, exists, out) ==
    IF ~exists THEN [proc EXCEPT !.skipped_sheets = Append(@, sheet_name)]
    ELSE IF out.kind = "rows" THEN [proc EXCEPT !.processed_count = @ + 1]
    ELSE [proc EXCEPT !.error_count = @ + 1,
                      !.skipped_sheets = Append(@, sheet_name)]

\* the counters of the DataProcessor after one iteration of the loop
AfterSheet(proc, sheet_name, exists, out) ==
    IF ~exists THEN [proc EXCEPT !.skipped_sheets = Append(@, sheet_name)]
    ELSE IF out.kind = "rows" THEN [proc EXCEPT !.processed_count = @ + 1]
    ELSE [proc EXCEPT !.error_count = @ + 1]

\* variant of Extend that keeps the rows a failing worksheet had yielded
Extend_KeepsPartial(all_data, out) == all_data \o out.rows

\* all_data.extend(sheet_data), reached only when process_sheet returned
Extend(all_data, out) == IF out.kind = "rows" THEN all_data \o out.rows ELSE all_data

\* one iteration of the loop of process_all_sheets
ProcessCompany ==
    /\ pc = "loop"
    /\ batch.processed < Len(batch.perusahaan_list)
    /\ \E perusahaan_data \in {batch.perusahaan_list[batch.processed + 1]} :
       \E exists \in {perusahaan_data.sheet_name \in DOMAIN workbook} :
       \E reloaded \in {AutoReloadIfChanged(config_file, config, loader)} :
       \E out \in {IF exists
                   THEN ProcessSheetOutcome(workbook[perusahaan_data.sheet_name],
                            perusahaan_data, period_args.period_search,
                            PeriodFull(period_args), reloaded.loader.row_mapping)
                   ELSE NoSheetData} :
          /\ config' = AfterRowMapping(out, reloaded, config, loader).config
          /\ loader' = AfterRowMapping(out, reloaded, config, loader).loader
          /\ sheet_data' = out
          /\ processor' = AfterSheet(processor, perusahaan_data.sheet_name, exists, out)
          /\ batch' = [batch EXCEPT !.processed = @ + 1,
                                    !.all_data = Extend(@, out)]
    /\ UNCHANGED <<pc, detectVars, dataframe, expected_companies, result, coerceVars, headerVars,
                   config_file, workbook, period_args, db, response, first_run>>

\* variant of LoopDone that lets the loop end after the first company
LoopDone_AfterFirst(b) == b.processed >= 1 \/ b.processed = Len(b.perusahaan_list)

\* the for loop over perusahaan_list.items() has visited every company
LoopDone(b) == b.processed = Len(b.perusahaan_list)

\* _print_summary: sorted(holdings.items()) raises TypeError when the rows
\* carry a str holding and a None holding
PrintSummaryRaises(all_data) ==
    \E i \in 1..Len(all_data) : \E j \in 1..Len(all_data) :
        (all_data[i].holding = NoneHolding) # (all_data[j].holding = NoneHolding)

\* process_all_sheets after the loop: the summary, then return all_data
FinishBatch ==
    /\ pc = "loop"
    /\ LoopDone(batch)
    /\ pc' = IF PrintSummaryRaises(batch.all_data) THEN "raised" ELSE "returned"
    /\ UNCHANGED <<detectVars, coverageVars, coerceVars, headerVars, uploadVars>>

Responded(kind) == [kind |-> kind]

\* convert(): an exception out of process_all_sheets lands in the outer handler
HandleException ==
    /\ pc = "raised"
    /\ response' = Responded("error")
    /\ pc' = "responded"
    /\ UNCHANGED <<detectVars, coverageVars, coerceVars, headerVars, config_file, loader, workbook,
                   period_args, processor, batch, sheet_data, db, first_run>>

\* pd.DataFrame(result)['kode_perusahaan']
RECURSIVE KodeColumn(_)
KodeColumn(rows) ==
    IF rows = <<>> THEN <<>> ELSE <<rows[1].kode_perusahaan>> \o KodeColumn(Tail(rows))

\* list(perusahaan_dict.keys())
ConfigKeys(perusahaan) == [i \in 1..Len(perusahaan) |-> perusahaan[i].key]

\* convert() between process_all_sheets and validate_upload: an empty batch
\* raises; otherwise the frame and the expected keys are prepared
CheckBatch ==
    /\ pc = "returned"
    /\ IF batch.all_data = <<>>
       THEN /\ response' = Responded("error")
            /\ pc' = "responded"
            /\ UNCHANGED <<config, loader, dataframe, expected_companies>>
       ELSE \E reloaded \in {AutoReloadIfChanged(config_file, config, loader)} :
                /\ config' = reloaded.config
                /\ loader' = reloaded.loader
                /\ dataframe' = KodeColumn(batch.all_data)
                /\ expected_companies' = ConfigKeys(reloaded.config)
                /\ pc' = "ready"
                /\ UNCHANGED response
    /\ UNCHANGED <<detectVars, result, coerceVars, headerVars, config_file, workbook, period_args,
                   processor, batch, sheet_data, db, first_run>>

\* variant of IsRejected that turns away a batch with a warning as well
IsRejected_WarningToo(res) == res.status \in {"failed", "warning"}

\* "if validation_result.status == 'failed'"
IsRejected(res) == res.status = "failed"

HistoryRecord(status, output_filename) ==
    [status |-> status, output_filename |-> output_filename]

\* convert() on a rejected batch: a history record with status failed and
\* no output file is written if the database takes it; nothing else is saved
HandleFailed ==
    /\ pc = "validated"
    /\ IsRejected(result)
    /\ \E saved \in BOOLEAN :
          db' = IF saved
                THEN [db EXCEPT !.upload_history =
                                    Append(@, HistoryRecord(result.status, "N/A"))]
                ELSE db
    /\ response' = Responded("rejected")
    /\ pc' = "responded"
    /\ UNCHANGED <<detectVars, coverageVars, coerceVars, headerVars, config_file, loader, workbook,
                   period_args, processor, batch, sheet_data, first_run>>

\* where the save step of convert() may raise
FailurePoints == {"none", "writer", "history", "cost_data", "output_file"}

\* the database after the save step that failed at the given point
SavedDb(d, status, rows, fail) ==
    LET withHistory == [d EXCEPT !.upload_history =
                                     Append(@, HistoryRecord(status, "output.xlsx"))]
        withData    == [withHistory EXCEPT !.cost_data = @ \o rows]
        withFile    == [withData EXCEPT !.output_files = Append(@, "output.xlsx")]
    IN  IF fail \in {"writer", "history"} THEN d
        ELSE IF fail = "cost_data" THEN withHistory
        ELSE IF fail = "output_file" THEN withData
        ELSE withFile

\* convert() on a batch that is not rejected: the output is written, then the
\* history record, the cost data and the output file are inserted, each
\* committed on its own; any of the four may raise
PersistBatch ==
    /\ pc = "validated"
    /\ ~IsRejected(result)
    /\ \E fail \in FailurePoints :
          /\ db' = SavedDb(db, result.status, batch.all_data, fail)
          /\ response' = IF fail = "none" THEN Responded(result.status)
                         ELSE IF fail = "writer" THEN Responded("error")
                         ELSE Responded("db_error")
    /\ pc' = "responded"
    /\ UNCHANGED <<detectVars, coverageVars, coerceVars, headerVars, config_file, loader, workbook,
                   period_args, processor, batch, sheet_data, first_run>>

\* the pipeline is run once more on the same DataProcessor
RunAgain ==
    /\ pc = "validated"
    /\ first_run = NoRun
    /\ first_run' = [rows |-> batch.all_data, result |-> result]
    /\ pc' = "convert"
    /\ UNCHANGED <<detectVars, coverageVars, coerceVars, headerVars, config_file, loader, workbook,
                   period_args, processor, batch, sheet_data, db, response>>

---------------------------------------------------------------------------
(* Inputs *)

Targets == {[year |-> 2024, month |-> 12], [year |-> 2024, month |-> 11]}

\* a merged range of the period row spans at least two columns
Intervals == {iv \in (1..MaxCol) \X (1..MaxCol) : iv[1] < iv[2]}

Disjoint(a, b) == a[2] < b[1] \/ b[2] < a[1]

IntervalSets ==
    {S \in SUBSET Intervals :
        /\ Cardinality(S) <= MaxRanges
        /\ \A a \in S : \A b \in S : a # b => Disjoint(a, b)}

MergedLayouts ==
    UNION {{{[min_col |-> iv[1], max_col |-> iv[2], text |-> f[iv]] : iv \in S} :
               f \in [S -> PeriodTexts]} : S \in IntervalSets}

GenericSheets ==
    {[merged |-> m, typeRow |-> t, max_column |-> MaxCol] :
        m \in MergedLayouts, t \in [1..MaxCol -> TypeTexts]}

\* the end-to-end worksheet: month header over columns 5-6, REAL/RKAP below
\* it, nothing classified in columns 7-8, REAL/RKAP in columns 9-10
E2ESheet ==
    [merged     |-> {[min_col |-> 5, max_col |-> 6, text |-> Txt_Desember2024]},
     typeRow    |-> << <<>>, <<>>, <<>>, <<>>, Txt_Real2024, Txt_Rkap2024, <<>>, Txt_Ket,
                       Txt_Real2024, Txt_Rkap2024 >>,
     max_column |-> 10]

Sheets == GenericSheets \cup {E2ESheet}

NoSheet == [merged |-> {}, typeRow |-> <<>>, max_column |-> 0]

Keys == {"A", "B", "C"}
ConfigCodes == {"", "a", "b"}
BatchCodes == {"a", "b", "c"}

SeqsUpTo(S, n) == UNION {[1..k -> S] : k \in 0..n}
Injective(s) == \A i \in 1..Len(s) : \A j \in 1..Len(s) : s[i] = s[j] => i = j

\* configurations: companies with distinct keys, in file order
GenericConfigs ==
    {cfg \in SeqsUpTo([key : Keys, kode : ConfigCodes], MaxCompanies) :
        \A i \in 1..Len(cfg) : \A j \in 1..Len(cfg) : cfg[i].key = cfg[j].key => i = j}

\* the expected set, handed over as a list without repetitions
GenericExpected == {e \in SeqsUpTo(Keys, Cardinality(Keys)) : Injective(e)}

GenericBatches == SeqsUpTo(BatchCodes, MaxRows)

\* the ten-unit scenario: units A..J with codes a..j, all ten expected
TenUnits == 1..10
Config10 == [i \in TenUnits |-> [key |-> UpperLetters[i], kode |-> LowerLetters[i]]]
Expected10 == [i \in TenUnits |-> UpperLetters[i]]

\* one row per unit of P, in configuration order
RECURSIVE RowsOf(_, _)
RowsOf(P, i) ==
    IF i > Len(Config10) THEN <<>>
    ELSE (IF i \in P THEN <<Config10[i].kode>> ELSE <<>>) \o RowsOf(P, i + 1)

Batches10 == {RowsOf(P, 1) : P \in SUBSET TenUnits}

\* cell contents handed to get_cell_value
CoerceAlphabet == {"1", "2", ".", ",", "-", " ", "n", "a"}
Txt_1234_50 == <<"1",",","2","3","4",".","5","0">>
Txt_abc == <<"a","b","c">>
CellTexts == SeqsUpTo(CoerceAlphabet, MaxTextLen) \cup {Txt_1234_50, Txt_abc}
CellNumbers == {Zero, Finite(5, 0), Finite(0 - 25, 1), Finite(12345, 1)}
CellValues ==
    {EmptyCell} \cup {NumberCell(n) : n \in CellNumbers} \cup {TextCell(t) : t \in CellTexts}

\* worksheets with a data grid: every cell of the data rows holds a number
\* of its own, row * 100 + column, except where the overlay puts something else
DataRows == {10, 11}
DefaultCell(row, col) == NumberCell(Finite(row * 100 + col, 0))
SpecialCells == {EmptyCell, TextCell(Txt_1234_50), TextCell(Txt_abc)}

WithCells(sh, overlay) ==
    [merged     |-> sh.merged,
     typeRow    |-> sh.typeRow,
     max_column |-> sh.max_column,
     cells      |-> [rc \in DataRows \X (1..sh.max_column) |->
                        IF rc \in DOMAIN overlay THEN overlay[rc]
                        ELSE DefaultCell(rc[1], rc[2])]]

Overlays(sh) ==
    {<<>>} \cup {rc :> v : rc \in DataRows \X (1..sh.max_column), v \in SpecialCells}

\* month and cumulative headers of December 2024 side by side
CumulativeSheet ==
    [merged     |-> {[min_col |-> 1, max_col |-> 2, text |-> Txt_Des2024],
                     [min_col |-> 3, max_col |-> 4, text |-> Txt_SdDes2024]},
     typeRow    |-> <<Txt_Real, Txt_Rkap, Txt_Real, Txt_Rkap, <<>> >>,
     max_column |-> 5]

\* only November 2024 on the sheet
NovemberSheet ==
    [merged     |-> {[min_col |-> 1, max_col |-> 2, text |-> Txt_Nov2024]},
     typeRow    |-> <<Txt_Real, Txt_Rkap, Txt_Real, Txt_Rkap, <<>> >>,
     max_column |-> 5]

\* no merged range on the period row
NoHeaderSheet ==
    [merged     |-> {},
     typeRow    |-> <<Txt_Real, Txt_Rkap, Txt_Real, Txt_Rkap, <<>> >>,
     max_column |-> 5]

\* December 2024 without a cumulative Budget column
NoBudgetSheet ==
    [merged     |-> {[min_col |-> 1, max_col |-> 2, text |-> Txt_Des2024]},
     typeRow    |-> <<Txt_Real, Txt_Rkap, Txt_Real, <<>>, <<>> >>,
     max_column |-> 5]

Layouts == {E2ESheet, CumulativeSheet, NovemberSheet, NoHeaderSheet, NoBudgetSheet}
DataSheets == UNION {{WithCells(sh, o) : o \in Overlays(sh)} : sh \in Layouts}

\* period strings handed to process_all_sheets / process_sheet
Txt_2024_12 == <<"2","0","2","4","-","1","2">>
Txt_2024_11 == <<"2","0","2","4","-","1","1">>
Txt_2024s12 == <<"2","0","2","4","/","1","2">>
Txt_31_12_2024 == <<"3","1","/","1","2","/","2","0","2","4">>
\* period_full left at its default None
NoneText == <<"None">>
PeriodArgs ==
    [period_search : {Txt_2024_12, Txt_2024_11, Txt_2024s12},
     period_full   : {NoneText, Txt_31_12_2024}]

\* row mappings: keys are row numbers written as JSON object keys
RowKeys == {<<"1","0">>, <<"1","1">>, <<"0","1","0">>}
RowEntries ==
    {[row_num_str |-> k, payment_type |-> m[1], cost_description |-> m[2]] :
        k \in RowKeys, m \in {<<"CASH", "x">>, <<"NON CASH", "y">>}}
RowMappings ==
    {rm \in SeqsUpTo(RowEntries, MaxEntries) :
        \A i \in 1..Len(rm) : \A j \in 1..Len(rm) :
            rm[i].row_num_str = rm[j].row_num_str => i = j}

CompanyA == [key |-> "A", kode |-> "a", sheet_name |-> "SA", holding |-> "H1"]
CompanyB(holding) == [key |-> "B", kode |-> "b", sheet_name |-> "SB", holding |-> holding]

\* configurations of the upload flow: one or two companies, the second one
\* with the same holding, another holding or a null holding
UploadConfigs ==
    {<<CompanyA>>} \cup {<<CompanyA, CompanyB(h)>> : h \in {"H1", "H2", NoneHolding}}

\* worksheets of the upload flow: the layouts with their default grid
UploadSheets == {WithCells(sh, <<>>) : sh \in Layouts}

\* workbooks: each configured sheet name is absent or holds one of the layouts
Workbooks(names) ==
    UNION {[present -> UploadSheets] : present \in SUBSET names}

SheetNames(perusahaan) == {perusahaan[i].sheet_name : i \in 1..Len(perusahaan)}

Entry10 == [row_num_str |-> <<"1","0">>, payment_type |-> "CASH", cost_description |-> "x"]
Entry11 == [row_num_str |-> <<"1","1">>, payment_type |-> "NON CASH", cost_description |-> "y"]
UploadMappings == {<<>>, <<Entry10>>, <<Entry11, Entry10>>}

UploadPeriods ==
    [period_search : {Txt_2024_12, Txt_2024_11, Txt_2024s12},
     period_full   : {Txt_31_12_2024}]

\* the ten-unit upload: companies A..J with sheets SA..SJ in one holding;
\* the sheets of up to two of them are absent from the workbook
SheetNames10 == <<"SA", "SB", "SC", "SD", "SE", "SF", "SG", "SH", "SI", "SJ">>
UploadConfig10 ==
    [i \in TenUnits |-> [key |-> UpperLetters[i], kode |-> LowerLetters[i],
                         sheet_name |-> SheetNames10[i], holding |-> "H1"]]
Workbooks10 ==
    {[n \in {SheetNames10[i] : i \in TenUnits \ P} |-> WithCells(E2ESheet, <<>>)] :
        P \in {Q \in SUBSET TenUnits : Cardinality(Q) <= 2}}

\* what an edit leaves in config/cost.json
EditedFiles ==
    [perusahaan : {<<CompanyA>>, <<CompanyB("H1"), CompanyA>>},
     row_mapping : {<<Entry11>>}]

\* header texts: a month written as its abbreviation (lower case,
\* capitalised, upper case) or in full, a four-digit year, and words around
Capitalize(word) == <<UpperChar(word[1])>> \o Tail(word)
Txt_Januari == <<"J","a","n","u","a","r","i">>
MonthWords ==
    UNION {{MONTH_MAP[i].key, Capitalize(MONTH_MAP[i].key), Upper(MONTH_MAP[i].key)} :
              i \in 1..Len(MONTH_MAP)}
        \cup {Txt_Januari, <<"D","e","s","e","m","b","e","r">>}
YearDigits ==
    {<<"2","0","0","0">>, <<"2","0","2","4">>, <<"2","0","9","9">>, <<"2","1","0","0">>}
Txt_Sd == <<"s",".","d","."," ">>
Txt_Realisasi == <<"R","e","a","l","i","s","a","s","i"," ">>
Txt_Summary == <<"S","u","m","m","a","r","y"," ">>
Txt_No32012 == <<"N","o"," ","3","2","0","1","2"," ">>
Txt_NovDash == <<"N","o","v","-">>
Txt_JanSd == <<"J","a","n"," ","s",".","d","."," ">>
Txt_Audited == <<" ","(","A","u","d","i","t","e","d",")">>
\* words before the month that name no month themselves
PlainWords == {<<>>, Txt_Sd, Txt_Realisasi, Txt_Summary, Txt_No32012}
\* words before the month that name another month
MonthPrefixes == {Txt_NovDash, Txt_JanSd}
HeaderRanges ==
    [before : PlainWords \cup MonthPrefixes, month_word : MonthWords,
     year_digits : YearDigits, after : {<<>>, Txt_Audited},
     min_col : {5}, max_col : {6}]

\* what a broken edit leaves in config/cost.json: a row key that is not
\* numeric after a good row, a payment type outside the vocabulary, or text
\* that is not JSON
EntryBadKey == [row_num_str |-> <<"x">>, payment_type |-> "CASH", cost_description |-> "z"]
EntryBadType == [row_num_str |-> <<"1","1">>, payment_type |-> "DEBIT", cost_description |-> "y"]
BrokenFiles ==
    {[perusahaan |-> <<CompanyA, CompanyB("H1")>>, row_mapping |-> <<Entry10, EntryBadKey>>,
      json |-> "ok"],
     [perusahaan |-> <<CompanyA>>, row_mapping |-> <<EntryBadType>>, json |-> "ok"],
     [perusahaan |-> <<>>, row_mapping |-> <<>>, json |-> "malformed"]}

\* what save_config is asked to save: a valid configuration or a broken one
SavedConfigs ==
    {[perusahaan |-> <<CompanyA, CompanyB("H1")>>, row_mapping |-> <<Entry11>>],
     [perusahaan |-> <<CompanyA>>, row_mapping |-> <<Entry10, EntryBadKey>>]}

---------------------------------------------------------------------------
(* Specifications *)

DetectorUnset ==
    /\ period_headers = NoHeaders
    /\ type_headers = <<>>
    /\ detected_columns = NoColumns
    /\ ret = NoResult

CoverageUnset ==
    /\ config = <<>>
    /\ dataframe = <<>>
    /\ expected_companies = <<>>
    /\ result = NoValidation

CoerceUnset ==
    /\ cell_value = EmptyCell
    /\ coerced = NotCoerced

HeaderUnset ==
    /\ header_cell = NoHeaderCell
    /\ parsed_header = NotParsed

\* no upload in progress: the loader holds what the file holds
UploadUnset ==
    /\ config_file = FileOf(config, <<>>)
    /\ loader = LoaderOf(<<>>)
    /\ workbook = <<>>
    /\ period_args = NoPeriodArgs
    /\ processor = NewDataProcessor
    /\ batch = NoBatch
    /\ sheet_data = NoSheetData
    /\ db = EmptyDb
    /\ response = NoResponse
    /\ first_run = NoRun

\* a freshly constructed ColumnDetector for some worksheet and target
InitDetect ==
    /\ pc = "ready"
    /\ sheet \in Sheets
    /\ target \in Targets
    /\ DetectorUnset
    /\ CoverageUnset
    /\ CoerceUnset
    /\ UploadUnset
    /\ HeaderUnset

\* validate_upload about to be called on some batch and expected list
InitCoverage ==
    /\ pc = "ready"
    /\ sheet = NoSheet
    /\ target = [year |-> 2024, month |-> 12]
    /\ DetectorUnset
    /\ \/ /\ config \in GenericConfigs
          /\ dataframe \in GenericBatches
          /\ expected_companies \in GenericExpected
       \/ /\ config = Config10
          /\ dataframe \in Batches10
          /\ expected_companies = Expected10
    /\ result = NoValidation
    /\ CoerceUnset
    /\ UploadUnset
    /\ HeaderUnset

\* get_cell_value about to be called on some cell
InitCoerce ==
    /\ pc = "cell"
    /\ sheet = NoSheet
    /\ target = [year |-> 2024, month |-> 12]
    /\ DetectorUnset
    /\ CoverageUnset
    /\ cell_value \in CellValues
    /\ coerced = NotCoerced
    /\ UploadUnset
    /\ HeaderUnset

\* process_sheet about to be called for one company's worksheet
InitSheet ==
    /\ pc = "sheet"
    /\ sheet = NoSheet
    /\ target = [year |-> 2024, month |-> 12]
    /\ DetectorUnset
    /\ config = <<CompanyA>>
    /\ dataframe = <<>>
    /\ expected_companies = <<>>
    /\ result = NoValidation
    /\ CoerceUnset
    /\ \E rm \in RowMappings :
          /\ config_file = FileOf(config, rm)
          /\ loader = LoaderOf(rm)
    /\ \E sh \in DataSheets : workbook = ("SA" :> sh)
    /\ period_args \in PeriodArgs
    /\ processor = NewDataProcessor
    /\ batch = NoBatch
    /\ sheet_data = NoSheetData
    /\ db = EmptyDb
    /\ response = NoResponse
    /\ first_run = NoRun
    /\ HeaderUnset

\* convert() has read the form, saved the upload, got the ConfigLoader and
\* opened the workbook; a new DataProcessor is about to process all sheets
InitUpload ==
    /\ pc = "convert"
    /\ sheet = NoSheet
    /\ target = [year |-> 2024, month |-> 12]
    /\ DetectorUnset
    /\ dataframe = <<>>
    /\ expected_companies = <<>>
    /\ result = NoValidation
    /\ CoerceUnset
    /\ \/ /\ config \in UploadConfigs
          /\ workbook \in Workbooks(SheetNames(config))
          /\ period_args \in UploadPeriods
          /\ \E rm \in UploadMappings :
                /\ config_file = FileOf(config, rm)
                /\ loader = LoaderOf(rm)
       \/ /\ config = UploadConfig10
          /\ workbook \in Workbooks10
          /\ period_args = [period_search |-> Txt_2024_12, period_full |-> Txt_31_12_2024]
          /\ config_file = FileOf(config, <<Entry10>>)
          /\ loader = LoaderOf(<<Entry10>>)
    /\ processor = NewDataProcessor
    /\ batch = NoBatch
    /\ sheet_data = NoSheetData
    /\ db = EmptyDb
    /\ response = NoResponse
    /\ first_run = NoRun
    /\ HeaderUnset

\* config/cost.json is rewritten from outside while the upload runs
EditConfigFile ==
    /\ pc \notin {"responded"}
    /\ NewMtime(config_file, loader) <= MaxEdits + 1
    /\ \E f \in EditedFiles :
          config_file' = [perusahaan |-> f.perusahaan, row_mapping |-> f.row_mapping,
                          mtime |-> NewMtime(config_file, loader), json |-> "ok"]
    /\ UNCHANGED <<pc, detectVars, coverageVars, coerceVars, headerVars, loader, workbook,
                   period_args, processor, batch, sheet_data, db, response, first_run>>

\* parse_period_header about to read one merged range of the period row
InitHeader ==
    /\ pc = "header"
    /\ sheet = NoSheet
    /\ target = [year |-> 2024, month |-> 12]
    /\ DetectorUnset
    /\ CoverageUnset
    /\ CoerceUnset
    /\ UploadUnset
    /\ header_cell \in HeaderRanges
    /\ parsed_header = NotParsed

\* config/cost.json is rewritten from outside with a content that does not
\* parse or does not pass the structure validation
BreakConfigFile ==
    /\ pc \notin {"responded"}
    /\ NewMtime(config_file, loader) <= MaxEdits + 1
    /\ \E f \in BrokenFiles :
          config_file' = [perusahaan |-> f.perusahaan, row_mapping |-> f.row_mapping,
                          mtime |-> NewMtime(config_file, loader), json |-> f.json]
    /\ UNCHANGED <<pc, detectVars, coverageVars, coerceVars, headerVars, loader, workbook,
                   period_args, processor, batch, sheet_data, db, response, first_run>>

\* an admin request calls save_config; a loader that had served a table is
\* idle again
SaveConfig ==
    /\ pc \notin {"responded"}
    /\ NewMtime(config_file, loader) <= MaxEdits + 1
    /\ \E config_data \in SavedConfigs :
       \E saved \in {SaveConfigOutcome(config_file, config, loader, config_data)} :
          /\ config_file' = saved.file
          /\ config' = saved.config
          /\ loader' = saved.loader
    /\ pc' = IF pc \in LoaderPositions THEN "config" ELSE pc
    /\ UNCHANGED <<detectVars, dataframe, expected_companies, result, coerceVars,
                   headerVars, workbook, period_args, processor, batch, sheet_data, db,
                   response, first_run>>

\* a ConfigLoader that has loaded a valid config/cost.json
InitConfig ==
    /\ pc = "config"
    /\ sheet = NoSheet
    /\ target = [year |-> 2024, month |-> 12]
    /\ DetectorUnset
    /\ config \in UploadConfigs
    /\ dataframe = <<>>
    /\ expected_companies = <<>>
    /\ result = NoValidation
    /\ CoerceUnset
    /\ \E rm \in UploadMappings :
          /\ config_file = FileOf(config, rm)
          /\ loader = LoaderOf(rm)
    /\ workbook = <<>>
    /\ period_args = NoPeriodArgs
    /\ processor = NewDataProcessor
    /\ batch = NoBatch
    /\ sheet_data = NoSheetData
    /\ db = EmptyDb
    /\ response = NoResponse
    /\ first_run = NoRun
    /\ HeaderUnset

NextDetect == DetectColumns
NextConfig ==
    \/ Reload
    \/ GetPerusahaan
    \/ GetRowMapping
    \/ SaveConfig
    \/ EditConfigFile
    \/ BreakConfigFile
NextLive ==
    \/ StartBatch
    \/ ProcessCompany
    \/ FinishBatch
    \/ HandleException
    \/ CheckBatch
    \/ ValidateUpload
    \/ HandleFailed
    \/ PersistBatch
    \/ EditConfigFile
    \/ BreakConfigFile
    \/ SaveConfig
NextHeader == ParseHeader
NextCoverage == ValidateUpload
NextCoerce == CoerceCell
NextSheet == ProcessSheet
NextUpload ==
    \/ StartBatch
    \/ ProcessCompany
    \/ FinishBatch
    \/ HandleException
    \/ CheckBatch
    \/ ValidateUpload
    \/ HandleFailed
    \/ PersistBatch
    \/ EditConfigFile
NextRerun ==
    \/ StartBatch
    \/ ProcessCompany
    \/ FinishBatch
    \/ HandleException
    \/ CheckBatch
    \/ ValidateUpload
    \/ RunAgain

SpecDetect == InitDetect /\ [][NextDetect]_vars
SpecConfig == InitConfig /\ [][NextConfig]_vars
SpecLive == InitUpload /\ [][NextLive]_vars
SpecHeader == InitHeader /\ [][NextHeader]_vars
SpecCoverage == InitCoverage /\ [][NextCoverage]_vars
SpecCoerce == InitCoerce /\ [][NextCoerce]_vars
SpecSheet == InitSheet /\ [][NextSheet]_vars
SpecUpload == InitUpload /\ [][NextUpload]_vars
SpecRerun == InitUpload /\ [][NextRerun]_vars

---------------------------------------------------------------------------
(* Properties of detect_columns (checked under SpecDetect) *)

Detected == pc = "done"

\* the descriptors of the worksheet, as the header parser lists them
AllPeriods == ParsePeriodHeader(sheet)

IsTargetPeriod(p, kind) ==
    p.type = kind /\ p.year = target.year /\ p.month = target.month

\* the descriptor of the given kind with the lowest index among those of the
\* target period, NoPeriod when there is none
FirstOfTarget(ps, kind) ==
    LET I == {i \in 1..Len(ps) : IsTargetPeriod(ps[i], kind)}
    IN  IF I = {} THEN NoPeriod ELSE ps[Min(I)]

\* classified columns of type ty among lo..hi
ColumnsOfType(ty, lo, hi) ==
    {c \in lo..hi : c \in DOMAIN type_headers /\ type_headers[c] = ty}

\* classified columns of type ty to the right of column c
ColumnsAfter(ty, c) == {d \in DOMAIN type_headers : d > c /\ type_headers[d] = ty}

\* where each logical column has to come from, given the matched descriptors
SourceColumns(k) ==
    LET b  == period_headers.bulan
        sd == period_headers.sd
        ty == IF k \in {"REAL_BULAN_INI", "REAL_SD"} THEN "REAL" ELSE "RKAP"
    IN  IF k \in {"REAL_BULAN_INI", "RKAP_BULAN_INI"}
        THEN ColumnsOfType(ty, b.start_col, b.end_col)
        ELSE IF sd # NoPeriod
        THEN ColumnsOfType(ty, sd.start_col, sd.end_col)
        ELSE ColumnsAfter(ty, b.end_col)

Unresolved == {k \in Range(required_columns) : SourceColumns(k) = {}}

\* C1: detect_columns returns a mapping only when all four logical columns
\* are resolved; once the month header is matched it succeeds exactly when
\* none is unresolved, and otherwise fails with an error whose list of names
\* is exactly the set of unresolved logical columns, on the cumulative path
\* and on the fallback path alike.
C1_MappingOnlyWhenAllResolved ==
    Detected =>
        /\ ret.kind = "ok" =>
              /\ \A k \in Range(required_columns) : ret.columns[k] # None
              /\ detected_columns = ret.columns
        /\ ret.kind # "ok" => ret.columns = NoColumns /\ detected_columns = NoColumns
        /\ period_headers.bulan # NoPeriod =>
              /\ Unresolved = {} => ret.kind = "ok"
              /\ Unresolved # {} =>
                    /\ ret.kind = "columns"
                    /\ Range(ret.missing) = Unresolved
                    /\ Injective(ret.missing)

\* C1 witness: the fallback scan found only one of the two cumulative
\* columns and the error names the other one
C1_Witness ==
    /\ Detected
    /\ ret.kind = "columns"
    /\ period_headers.bulan # NoPeriod
    /\ period_headers.sd = NoPeriod
    /\ Len(ret.missing) = 1

NoMonthMatch ==
    Detected /\ ret.kind # "header" /\ FirstOfTarget(AllPeriods, "bulan") = NoPeriod

\* the (year, month) pairs of the Month-kind descriptors, in sheet order
MonthPairs ==
    LET months == SelectSeq(AllPeriods, LAMBDA p : p.type = "bulan")
    IN  [i \in 1..Len(months) |-> <<months[i].year, months[i].month>>]

\* C3 as stated: with no Month-kind header of the target period, the
\* period-not-found error lists at least one available period and no mapping
\* is returned.
C3_AsStated ==
    NoMonthMatch =>
        /\ ret.kind = "period"
        /\ Len(ret.available) >= 1
        /\ ret.columns = NoColumns

\* C3 amended: with parsed headers and no Month-kind header of the target
\* period, detect_columns fails with the period-not-found error, which lists
\* the (year, month) of every Month-kind descriptor of the sheet (at least
\* one whenever the sheet has a Month-kind header, none when every parsed
\* header is Cumulative-kind); no mapping is returned, and a mapping is never
\* built on a descriptor whose year or month differs from the target.
C3_PeriodNotFound ==
    /\ NoMonthMatch =>
          /\ ret.kind = "period"
          /\ ret.available = MonthPairs
          /\ MonthPairs # <<>> => Len(ret.available) >= 1
          /\ ret.columns = NoColumns
          /\ detected_columns = NoColumns
    /\ (Detected /\ ret.kind = "ok") =>
          /\ period_headers.bulan.year = target.year
          /\ period_headers.bulan.month = target.month

\* C3 witness: the target is absent while Month headers of other periods exist
C3_Witness == NoMonthMatch /\ ret.kind = "period" /\ Len(ret.available) >= 1

\* the case of C4: month matched, one Actual and one Budget column in its
\* range, no Cumulative header on the sheet
C4_Case ==
    /\ Detected
    /\ period_headers.bulan # NoPeriod
    /\ LET ps == AllPeriods IN \A i \in 1..Len(ps) : ps[i].type # "s.d."
    /\ Cardinality(ColumnsOfType("REAL", period_headers.bulan.start_col,
                                 period_headers.bulan.end_col)) = 1
    /\ Cardinality(ColumnsOfType("RKAP", period_headers.bulan.start_col,
                                 period_headers.bulan.end_col)) = 1

\* C4: in that case the fallback takes the first Actual column after c2 as
\* actual_cumulative and the first Budget column after c2 as
\* budget_cumulative, looking at every classified column up to the highest
\* one and passing over unclassified columns; a column it cannot find is
\* reported as missing.
C4_FallbackTakesNextColumns ==
    C4_Case =>
        LET c2       == period_headers.bulan.end_col
            realCols == ColumnsAfter("REAL", c2)
            rkapCols == ColumnsAfter("RKAP", c2)
        IN  IF realCols # {} /\ rkapCols # {}
            THEN /\ ret.kind = "ok"
                 /\ ret.columns.REAL_SD = Min(realCols)
                 /\ ret.columns.RKAP_SD = Min(rkapCols)
            ELSE /\ ret.kind = "columns"
                 /\ Range(ret.missing) =
                       {k \in {"REAL_SD"} : realCols = {}} \cup
                       {k \in {"RKAP_SD"} : rkapCols = {}}

\* C4 witness: the fallback succeeded after passing an unclassified column
C4_Witness ==
    /\ C4_Case
    /\ ret.kind = "ok"
    /\ \E c \in (period_headers.bulan.end_col + 1)..ret.columns.REAL_SD :
          c \notin DOMAIN type_headers

E2ECase ==
    Detected /\ sheet = E2ESheet /\ target = [year |-> 2024, month |-> 12]

\* C5: on the end-to-end worksheet (month header for December 2024 over
\* columns 5-6, Actual at 5, Budget at 6, no Cumulative header, columns 7-8
\* unclassified, Actual/Budget at 9-10) the request for (2024, 12) yields
\* actual_month 5, budget_month 6, actual_cumulative 9, budget_cumulative 10.
C5_EndToEnd ==
    E2ECase =>
        /\ ret.kind = "ok"
        /\ ret.columns = [REAL_BULAN_INI |-> 5, RKAP_BULAN_INI |-> 6,
                          REAL_SD |-> 9, RKAP_SD |-> 10]
        /\ detected_columns = ret.columns

\* C5 witness: detection has run on the end-to-end worksheet
C5_Witness == E2ECase /\ ret.kind # "none"

\* C6: on success the month columns lie inside the matched Month
\* descriptor's range and are classified Actual and Budget; when a
\* Cumulative descriptor of the target exists, the cumulative columns lie
\* inside its range and are classified Actual and Budget.
C6_ColumnsInsideRanges ==
    (Detected /\ ret.kind = "ok") =>
        LET ps == AllPeriods
            b  == FirstOfTarget(ps, "bulan")
            sd == FirstOfTarget(ps, "s.d.")
            c  == ret.columns
        IN  /\ b # NoPeriod
            /\ c.REAL_BULAN_INI \in b.start_col..b.end_col
            /\ c.RKAP_BULAN_INI \in b.start_col..b.end_col
            /\ TypeAt(type_headers, c.REAL_BULAN_INI) = "REAL"
            /\ TypeAt(type_headers, c.RKAP_BULAN_INI) = "RKAP"
            /\ sd # NoPeriod =>
                  /\ c.REAL_SD \in sd.start_col..sd.end_col
                  /\ c.RKAP_SD \in sd.start_col..sd.end_col
                  /\ TypeAt(type_headers, c.REAL_SD) = "REAL"
                  /\ TypeAt(type_headers, c.RKAP_SD) = "RKAP"

\* C6 witness: success with a Cumulative descriptor of the target
C6_Witness ==
    Detected /\ ret.kind = "ok" /\ FirstOfTarget(AllPeriods, "s.d.") # NoPeriod

\* C26 as stated: when detect_columns succeeds through the fallback (no
\* cumulative descriptor matches the target), the chosen cumulative columns
\* lie inside the column range of no other parsed period descriptor.
C26_AsStated ==
    (Detected /\ ret.kind = "ok" /\ period_headers.sd = NoPeriod) =>
        \A i \in 1..Len(AllPeriods) :
            AllPeriods[i] # period_headers.bulan =>
                /\ detected_columns.REAL_SD
                      \notin AllPeriods[i].start_col..AllPeriods[i].end_col
                /\ detected_columns.RKAP_SD
                      \notin AllPeriods[i].start_col..AllPeriods[i].end_col

\* no merged range of the period row carries a text with a month and a year
NoPeriodDescriptor ==
    \A mr \in sheet.merged :
        mr.text \notin {Txt_Des2024, Txt_SdDes2024, Txt_Nov2024, Txt_Des2023,
                        Txt_Desember2024}

\* no cell of the value-type row carries an Actual (REAL) or Budget (RKAP) label
NoTypeColumn ==
    \A c \in 1..sheet.max_column :
        sheet.typeRow[c] \notin {Txt_Real, Txt_Rkap, Txt_Real2024, Txt_Rkap2024}

\* C23: when no merged range of the period row yields a descriptor, or no
\* column of the value-type row is classified, detect_columns fails with the
\* header error, returns no mapping and leaves detected_columns unset; the
\* header error has no other cause.
C23_HeaderParseFails ==
    Detected =>
        /\ (NoPeriodDescriptor \/ NoTypeColumn) =>
              /\ ret = HeaderError
              /\ detected_columns = NoColumns
              /\ period_headers = NoHeaders
        /\ ret.kind = "header" => (NoPeriodDescriptor \/ NoTypeColumn)

\* C23 witness: the period row has merged ranges but none is a period, the
\* value-type row has Actual/Budget columns, and detection failed
C23_Witness ==
    /\ Detected
    /\ sheet.merged # {}
    /\ NoPeriodDescriptor
    /\ ~NoTypeColumn
    /\ ret.kind = "header"

---------------------------------------------------------------------------
(* Properties of validate_upload (checked under SpecCoverage) *)

Validated == pc = "validated"

\* the units appearing in the batch: a row belongs to the company the
\* configuration assigns its code to (the last one listed with that code)
UnitsPresent ==
    {config[i].key : i \in
        {i \in 1..Len(config) :
            /\ config[i].kode # ""
            /\ config[i].kode \in Range(dataframe)
            /\ \A j \in (i + 1)..Len(config) : config[j].kode # config[i].kode}}

ExpectedSet == Range(expected_companies)

\* C7 as stated: the matched count equals |expected /\ present|; units
\* present in the batch but not expected do not count.
C7_AsStated ==
    Validated => result.processed_companies = Cardinality(ExpectedSet \cap UnitsPresent)

\* C8: the missing list holds exactly the expected units that are not
\* present in the batch, each once, in ascending order.
C8_MissingSorted ==
    Validated =>
        LET m == result.missing_companies
        IN  /\ Range(m) = ExpectedSet \ UnitsPresent
            /\ \A i \in 1..Len(m) : \A j \in 1..Len(m) : i < j => Rank(m[i]) < Rank(m[j])

\* C8 witness: two units are missing and the expected list names them in
\* descending order
C8_Witness ==
    /\ Validated
    /\ Len(result.missing_companies) >= 2
    /\ \E i \in 1..Len(expected_companies) : \E j \in 1..Len(expected_companies) :
          /\ i < j
          /\ Rank(expected_companies[i]) > Rank(expected_companies[j])
          /\ {expected_companies[i], expected_companies[j]} \subseteq
                Range(result.missing_companies)

\* C9: coverage_percent = matched_count / |expected| * 100; with an empty
\* expected set nothing is divided, coverage_percent is 0 and the status is
\* Rejected.
C9_CoveragePercent ==
    Validated =>
        /\ result.total_companies = Cardinality(ExpectedSet)
        /\ result.company_coverage_percent.den > 0
        /\ ExpectedSet # {} =>
              result.company_coverage_percent.num * Cardinality(ExpectedSet)
                 = result.processed_companies * 100 * result.company_coverage_percent.den
        /\ ExpectedSet = {} =>
              /\ Same(result.company_coverage_percent, Percent(0))
              /\ result.status = "failed"

\* C9 witness: nothing is expected although the batch holds a known unit
C9_Witness == Validated /\ ExpectedSet = {} /\ result.processed_companies > 0

\* C10: the status is a total function of the coverage: below 90 Rejected,
\* from 90 up to but excluding 100 Degraded, 100 Accepted; with ten expected
\* units, nine present give 90 and Degraded, ten give Accepted, eight give
\* Rejected.
C10_StatusPolicy ==
    Validated =>
        LET cov == result.company_coverage_percent
            n   == Cardinality(UnitsPresent)
        IN  /\ result.status \in {"failed", "warning", "success"}
            /\ Less(cov, Percent(90)) => result.status = "failed"
            /\ (~Less(cov, Percent(90)) /\ Less(cov, Percent(100))) => result.status = "warning"
            /\ Same(cov, Percent(100)) => result.status = "success"
            /\ (config = Config10 /\ expected_companies = Expected10) =>
                  /\ n = 9 => Same(cov, Percent(90)) /\ result.status = "warning"
                  /\ n = 10 => Same(cov, Percent(100)) /\ result.status = "success"
                  /\ n = 8 => Same(cov, Percent(80)) /\ result.status = "failed"

\* C10 witness: nine of the ten expected units are present
C10_Witness ==
    /\ Validated
    /\ config = Config10
    /\ expected_companies = Expected10
    /\ Cardinality(UnitsPresent) = 9
    /\ result.status = "warning"

\* C27 as stated: every result of validate_upload is consistent, for any
\* batch and any expected list: processed_companies + len(missing_companies)
\* = total_companies, 0 <= processed_companies <= total_companies, and the
\* coverage percentage never exceeds 100.
C27_AsStated ==
    Validated =>
        /\ result.processed_companies + Len(result.missing_companies)
              = result.total_companies
        /\ 0 <= result.processed_companies
        /\ result.processed_companies <= result.total_companies
        /\ ~Less(Percent(100), result.company_coverage_percent)

---------------------------------------------------------------------------
(* Properties of get_cell_value (checked under SpecCoerce) *)

Coerced == pc = "coerced"

\* a text cell after stripping thousands separators and surrounding blanks
StrippedText == Strip(Remove(cell_value.text, ","))

\* the text is a decimal numeral: optional sign, digits, at most one point
IsDecimalText(t) == ParseFloat(t).ok /\ ParseFloat(t).value.kind = "finite"

\* C15 as stated: get_cell_value never raises and returns 0 for an empty
\* cell, the number itself for a numeric cell and, for text stripped of
\* thousands separators and surrounding whitespace, 0 when nothing or a lone
\* "-" is left, the decimal value when the rest is a decimal ("1,234.50"
\* gives 1234.50), and otherwise 0 with a recorded warning ("abc" gives 0).
C15_AsStated ==
    Coerced =>
        /\ cell_value.kind = "empty" => coerced = [value |-> Zero, warned |-> FALSE]
        /\ cell_value.kind = "number" =>
              coerced = [value |-> cell_value.num, warned |-> FALSE]
        /\ cell_value.kind = "text" =>
              LET t == StrippedText
              IN  IF t = <<>> \/ t = <<"-">>
                  THEN coerced = [value |-> Zero, warned |-> FALSE]
                  ELSE IF IsDecimalText(t)
                  THEN coerced = [value |-> ParseFloat(t).value, warned |-> FALSE]
                  ELSE coerced = [value |-> Zero, warned |-> TRUE]
        /\ cell_value = TextCell(Txt_1234_50) => coerced.value = Finite(12345, 1)
        /\ cell_value = TextCell(Txt_abc) => coerced = [value |-> Zero, warned |-> TRUE]

---------------------------------------------------------------------------
(* Properties of process_sheet (checked under SpecSheet) *)

Extracted == pc = "extracted"

\* the worksheet of the company and what column detection makes of it
TheSheet == workbook[config[1].sheet_name]
TheTarget == ParsePeriod(period_args.period_search)
TheDetection ==
    DetectOutcome(TheSheet, [year |-> TheTarget.year, month |-> TheTarget.month]).ret
DetectionSucceeds == TheTarget.ok /\ TheDetection.kind = "ok"

\* the period the caller wants shown on the rows
DisplayPeriod ==
    IF period_args.period_full = NoneText
    THEN period_args.period_search ELSE period_args.period_full

\* the amount standing in a cell of the grid
AmountIn(row, col) ==
    LET c == TheSheet.cells[<<row, col>>]
    IN  IF c = DefaultCell(row, col) THEN Finite(row * 100 + col, 0)
        ELSE IF c = TextCell(Txt_1234_50) THEN Finite(12345, 1)
        ELSE Zero

\* the row number an entry's key denotes
RowOf(entry) ==
    IF entry.row_num_str = <<"1","1">> THEN 11 ELSE 10

\* C16: when column detection succeeds, process_sheet returns exactly one
\* row per entry of the row mapping, in the mapping's order, each with the
\* worksheet's unit code, the caller's display period, the entry's category
\* metadata and the four amounts standing in the entry's row at the four
\* mapped columns.
C16_OneRowPerEntry ==
    (Extracted /\ DetectionSucceeds) =>
        LET rm   == loader.row_mapping
            rows == sheet_data.rows
            cols == TheDetection.columns
        IN  /\ sheet_data.kind = "rows"
            /\ Len(rows) = Len(rm)
            /\ \A i \in 1..Len(rm) :
                  /\ rows[i].kode_perusahaan = config[1].kode
                  /\ rows[i].holding = config[1].holding
                  /\ rows[i].periode = DisplayPeriod
                  /\ rows[i].payment_type = rm[i].payment_type
                  /\ rows[i].cost_description = rm[i].cost_description
                  /\ rows[i].REAL = AmountIn(RowOf(rm[i]), cols.REAL_BULAN_INI)
                  /\ rows[i].RKAP = AmountIn(RowOf(rm[i]), cols.RKAP_BULAN_INI)
                  /\ rows[i].REAL_SD = AmountIn(RowOf(rm[i]), cols.REAL_SD)
                  /\ rows[i].RKAP_SD = AmountIn(RowOf(rm[i]), cols.RKAP_SD)

\* C16 witness: two entries listed in descending row order gave two rows,
\* and a cumulative amount came from a text cell
C16_Witness ==
    /\ Extracted
    /\ DetectionSucceeds
    /\ Len(sheet_data.rows) = 2
    /\ RowOf(loader.row_mapping[1]) = 11
    /\ RowOf(loader.row_mapping[2]) = 10
    /\ sheet_data.rows[1].REAL_SD = Finite(12345, 1)

---------------------------------------------------------------------------
(* Properties of the upload flow (checked under SpecUpload and SpecRerun) *)

\* the loop of process_all_sheets is over
BatchOver == pc \in {"returned", "raised", "ready", "validated", "responded"}

Companies == batch.perusahaan_list

SheetMissing(c) == c.sheet_name \notin DOMAIN workbook

\* the layout of a worksheet, without its data grid
LayoutOf(sh) == [merged |-> sh.merged, typeRow |-> sh.typeRow, max_column |-> sh.max_column]

\* the worksheets whose December 2024 (resp. November 2024) columns can be
\* found: those with that month's header and all four columns
Extractable(c) ==
    /\ ~SheetMissing(c)
    /\ \/ /\ period_args.period_search = Txt_2024_12
          /\ LayoutOf(workbook[c.sheet_name]) \in {E2ESheet, CumulativeSheet}
       \/ /\ period_args.period_search = Txt_2024_11
          /\ LayoutOf(workbook[c.sheet_name]) = NovemberSheet

\* the worksheets that exist and fail: header parse, period not found,
\* column mapping or a malformed period
Failing(c) == ~SheetMissing(c) /\ ~Extractable(c)

Count(P(_)) == Cardinality({i \in 1..Len(Companies) : P(Companies[i])})

\* C11 as stated: a call of validate_upload changes nothing but its result
\* (the configuration singleton included), so that the result depends on the
\* batch and the expected list alone.
C11_AsStated ==
    [][(pc = "ready" /\ pc' = "validated") => (config' = config /\ loader' = loader)]_vars

Persisted(status) ==
    /\ db.upload_history = <<HistoryRecord(status, "output.xlsx")>>
    /\ db.cost_data = batch.all_data
    /\ db.output_files = <<"output.xlsx">>

C13_AsStated ==
    pc = "responded" =>
        /\ result.status # "none"
        /\ Count(Extractable) = 0 => result.status = "failed"

\* C14: the validator is invoked only after every company of the batch has
\* been extracted, skipped or has failed; the frame it sees holds the whole
\* batch.
C14_ValidatesWholeBatch ==
    (pc \in {"ready", "validated"} \/ result.status # "none") =>
        /\ batch.processed = Len(Companies)
        /\ processor.processed_count + processor.error_count
              + Len(processor.skipped_sheets) = Len(Companies)
        /\ processor.processed_count = Count(Extractable)
        /\ dataframe = KodeColumn(batch.all_data)

\* C14 witness: validation ran on a batch with a skipped and a processed sheet
C14_Witness ==
    /\ pc = "validated"
    /\ Len(processor.skipped_sheets) >= 1
    /\ processor.processed_count >= 1

\* the sheet names of the companies whose worksheet is absent, in order
MissingSheets ==
    LET missing == SelectSeq(Companies, SheetMissing)
    IN  [i \in 1..Len(missing) |-> missing[i].sheet_name]

\* C17: a company whose worksheet is absent from the workbook is skipped,
\* its sheet name is recorded in skipped_sheets, it is not counted as an
\* error, and the remaining companies are still processed.
C17_MissingSheetSkipped ==
    BatchOver =>
        /\ processor.skipped_sheets = MissingSheets
        /\ processor.error_count = Count(Failing)
        /\ processor.processed_count = Count(Extractable)
        /\ batch.processed = Len(Companies)

\* C17 witness: the first company's sheet is absent and the second
\* company's rows are in the batch
C17_Witness ==
    /\ pc = "returned"
    /\ Len(Companies) = 2
    /\ SheetMissing(Companies[1])
    /\ processor.skipped_sheets = <<Companies[1].sheet_name>>
    /\ batch.all_data # <<>>
    /\ batch.all_data[1].kode_perusahaan = Companies[2].kode

\* C18 as stated: every worksheet that failed (header parse, period not
\* found, column mapping) is recorded as a skipped-worksheet entry, with its
\* reason, in what the caller receives, and sibling worksheets go on.
C18_AsStated ==
    BatchOver =>
        /\ \A i \in 1..Len(Companies) :
              Failing(Companies[i]) =>
                  Companies[i].sheet_name \in Range(processor.skipped_sheets)
        /\ batch.processed = Len(Companies)

\* C19 as stated: no exception escapes process_all_sheets, whatever the
\* workbook, the period string and the (structurally valid) configuration.
C19_AsStated == pc # "raised"

\* C20: a second run of the pipeline on the same DataProcessor, workbook,
\* configuration and period yields the same rows and the same coverage
\* result as the first.
C20_Idempotent ==
    first_run # NoRun =>
        /\ pc \in {"returned", "ready", "validated"} => batch.all_data = first_run.rows
        /\ pc = "validated" => result = first_run.result

\* C20 witness: the second run is validated on a DataProcessor whose
\* counters still hold the first run
C20_Witness ==
    /\ first_run # NoRun
    /\ pc = "validated"
    /\ batch.processed = Len(Companies)
    /\ processor.processed_count + processor.error_count
          + Len(processor.skipped_sheets) = 2 * Len(Companies)
    /\ Len(processor.skipped_sheets) >= 2


\* C30 as stated: whatever step of the database save fails, no upload-history
\* record with status success or warning is left without its cost data rows
\* and its output file.
C30_AsStated ==
    \A i \in 1..Len(db.upload_history) :
        db.upload_history[i].status \in {"success", "warning"} =>
            /\ db.cost_data = batch.all_data
            /\ db.upload_history[i].output_filename \in Range(db.output_files)


---------------------------------------------------------------------------
(* Properties of parse_period_header (checked under SpecHeader) *)

Parsed == pc = "parsed"

IsPrefix(p, word) == Len(p) <= Len(word) /\ SubSeq(word, 1, Len(p)) = p

\* the month and the year the words of the header cell spell out
WrittenMonth ==
    MONTH_MAP[CHOOSE i \in 1..Len(MONTH_MAP) :
                  IsPrefix(MONTH_MAP[i].key, Lower(header_cell.month_word))].num
WrittenYear == DigitsValue(header_cell.year_digits)

\* C21 as stated: a header text with a month abbreviation of the vocabulary
\* and a four-digit year >= 2000 yields a descriptor with exactly that month
\* and that year, whatever words surround them.
C21_AsStated ==
    (Parsed /\ header_cell.before \in PlainWords) =>
        /\ parsed_header.descriptor # NoPeriod
        /\ parsed_header.descriptor.month = WrittenMonth
        /\ parsed_header.descriptor.year = WrittenYear

\* the vocabulary entries that stand in the text at offset k
AbbreviationsAt(t, k) ==
    {i \in 1..Len(MONTH_MAP) :
        /\ k + Len(MONTH_MAP[i].key) - 1 <= Len(t)
        /\ SubSeq(t, k, k + Len(MONTH_MAP[i].key) - 1) = MONTH_MAP[i].key}

LoweredText == Lower(Strip(CellText(header_cell)))

Abbreviations == UNION {AbbreviationsAt(LoweredText, k) : k \in 1..Len(LoweredText)}

---------------------------------------------------------------------------
(* Properties of the ConfigLoader (checked under SpecConfig) and of an   *)
(* upload that runs while the configuration is saved or edited (checked  *)
(* under SpecLive and SpecUpload)                                         *)

\* C28 as stated: whatever sequence of reload, auto reload, save_config,
\* getter calls and external edits has happened, the configuration a getter
\* serves has passed _validate_config_structure; a file that fails to parse
\* or to validate leaves the previous valid configuration in effect.
C28_AsStated == pc \in {"perusahaan", "row_mapping"} => ValidStructure(loader.row_mapping)

Accounted ==
    processor.processed_count + processor.error_count + Len(processor.skipped_sheets)

\* C24: on a fresh DataProcessor every company the loop has visited is booked
\* in exactly one of processed_count, error_count and skipped_sheets, and when
\* process_all_sheets returns the three add up to the number of companies.
C24_EveryCompanyAccounted ==
    /\ (pc = "loop" \/ BatchOver) => Accounted = batch.processed
    /\ pc = "returned" => Accounted = Len(Companies)

\* C24 witness: a returned batch with a processed, a failed and a skipped
\* worksheet
C24_Witness ==
    /\ pc = "returned"
    /\ processor.processed_count >= 1
    /\ processor.error_count >= 1
    /\ Len(processor.skipped_sheets) >= 1

\* the rows one iteration of the loop added to the batch
Added == SubSeq(batch'.all_data, Len(batch.all_data) + 1, Len(batch'.all_data))

\* C25: each iteration of the loop either counts the worksheet as processed
\* and adds its complete row set (one row per entry of the row mapping, all
\* with the company's code) to the batch, or does not count it and adds no
\* row; rows already in the batch stay.
C25_AllOrNothing ==
    [][(pc = "loop" /\ batch'.processed = batch.processed + 1) =>
          /\ SubSeq(batch'.all_data, 1, Len(batch.all_data)) = batch.all_data
          /\ \/ /\ processor'.processed_count = processor.processed_count + 1
                /\ Len(Added) = Len(loader'.row_mapping)
                /\ \A i \in 1..Len(Added) :
                      /\ Added[i].kode_perusahaan = Companies[batch'.processed].kode
                      /\ Added[i].payment_type = loader'.row_mapping[i].payment_type
                      /\ Added[i].cost_description
                            = loader'.row_mapping[i].cost_description
             \/ /\ processor'.processed_count = processor.processed_count
                /\ Added = <<>>]_vars

\* C25 witness: the last worksheet raised on its second row entry after a
\* first row was read, and the returned batch holds the rows of another
\* worksheet only
C25_Witness ==
    /\ pc = "returned"
    /\ sheet_data.kind = "raised"
    /\ sheet_data.rows # <<>>
    /\ batch.all_data # <<>>
    /\ \A i \in 1..Len(batch.all_data) :
          batch.all_data[i].kode_perusahaan # Companies[Len(Companies)].kode

\* the row entries a company contributed to the batch
EntriesOf(kode) ==
    {[payment_type |-> batch.all_data[i].payment_type,
      cost_description |-> batch.all_data[i].cost_description] :
        i \in {j \in 1..Len(batch.all_data) : batch.all_data[j].kode_perusahaan = kode}}

\* C29 as stated: all worksheets of one process_all_sheets call are extracted
\* with the same row mapping, also when the configuration file is saved or
\* edited meanwhile, so all processed worksheets contribute the same row
\* entries.
C29_AsStated ==
    pc = "returned" =>
        \A i \in 1..Len(batch.all_data) : \A j \in 1..Len(batch.all_data) :
            EntriesOf(batch.all_data[i].kode_perusahaan)
                = EntriesOf(batch.all_data[j].kode_perusahaan)

=============================================================================
